---------------------------- MODULE Spec2Model ----------------------------
(***************************************************************************)
(* DefiBuddy: the server's lookup and chat handlers (server/routes.ts,     *)
(* held in src/server/storage.ts), and the client page                     *)
(* (client/src/pages/home.tsx): the portfolio store, the chat edit and the *)
(* whole-portfolio deployment.                                             *)
(*                                                                         *)
(* Numbers.  A USD balance is held in cents.  A percentage that comes from *)
(* the AI is any JSON number; the model holds every percentage in HALF     *)
(* POINTS (Pts(50) is 50%, Pts(33) + 1 is 33.5%), which is fine enough to  *)
(* sit on both sides of the chat handler's tolerance of 0.5.  Math.round   *)
(* is round-half-up, computed exactly on the ratio.                        *)
(***************************************************************************)
EXTENDS Integers, Sequences, FiniteSets, TLC

VARIABLES
    ethData,      \* wallet lookup: the block explorer's answer for the address
    walletRes,    \* wallet lookup: the handler's response
    walletSaved,  \* wallet lookup: rows appended to wallet_searches
    aiLookup,     \* personality lookup: the content of the AI's reply
    lookupRes,    \* personality lookup: the handler's response
    searches,     \* personality lookup: rows appended to searches
    chatReq,      \* chat edit: the portfolio of the request body
    aiChat,       \* chat edit: the content of the AI's reply
    chatRes,      \* chat edit: the handler's response
    portfolio,       \* client: the portfolio state, None when null
    stored,          \* client: localStorage's defibuddy_portfolio, None when removed
    lookupMutation,  \* client: status and data of the personality lookup mutation
    walletMutation,  \* client: status and data of the wallet lookup mutation
    lastSearchType,  \* client: "none", "personality" or "wallet"
    chatLoading,     \* client: the chat request's loading flag
    chatCall,        \* client: the chat request in flight (its portfolio), or None
    chatOver,        \* client: what the last chat request to end wrote over: "none"
                     \* before any, "failed" with no write, else "sent" (the
                     \* items it was sent with) or "other"
    deployItems,     \* deploy: portfolio.items as the run's closure holds them
    chainBalance,    \* deploy: the connected address's ETH on chain
    pc,              \* deploy: the await deployPortfolio is suspended at, or "idle"
    deployLoading,   \* deploy: the loading flag
    deployStatus,    \* deploy: the status line
    tokenChecks,     \* deploy: the availability checks, when set
    idx,             \* deploy: the position in availableTokens of the asset in hand
    balance,         \* deploy: the balance the iteration read
    amount,          \* deploy: preliminaryAmount, then amountIn
    gasEstimate,     \* deploy: the gas estimate of the asset in hand
    gasCost,         \* deploy: the asset's gas cost with the margin
    successCount,    \* deploy: swaps confirmed in this run
    nEstimates,      \* deploy: gas estimations asked for in this run
    swaps,           \* deploy: the swaps submitted in this run, in order
    outcomes,        \* deploy: how each asset taken in hand ended, in order
    normIn,          \* normalization: the list of percentages fed as weights
    normSite,        \* normalization: the site that was applied, or "none"
    normOut,         \* normalization: the percentages that came out
    dbSearches,      \* history: the rows of table searches, in insertion order
    dbWalletSearches, \* history: the rows of table wallet_searches, in insertion order
    dbClock,         \* history: the database's now() at the last insert
    lookupLog,       \* history: the lookups served so far, with their answers
    histRead,        \* history: the last history read, or NoRead
    poolPc,          \* pool deploy: the await deployToPool is suspended at, or "idle"
    deployingPoolId, \* pool deploy: the pool being deployed to, 0 when null
    poolTier,        \* pool deploy: the position in feeTiers of the tier in hand
    poolPct,         \* pool deploy: matchingItem.percentage
    poolBalance,     \* pool deploy: the balance read before the loop
    poolAmount,      \* pool deploy: preliminaryAmount, then amountIn
    poolGas,         \* pool deploy: the gas estimate of the tier in hand
    poolSwaps,       \* pool deploy: the swaps submitted in this run, in order
    poolToast,       \* pool deploy: the toast the run ended with, or "none"
    mintPc,          \* mint: the await mintReportAsNFT is suspended at, or "idle"
    mintingNft,      \* mint: the loading flag
    nftContract,     \* mint: localStorage's defibuddy_nft_contract, 0 when absent
    nftDeployments,  \* mint: contracts deployed from this client so far
    mintAddress,     \* mint: contractAddress of the run, 0 before it is known
    mintRuns,        \* mint: how each run ended and the address it minted at
    isConnecting,    \* connect: the loading flag
    lookupPending,   \* lookups: lookupMutation.isPending
    walletPending,   \* lookups: walletMutation.isPending
    untracked,       \* lookups: requests in flight whose mutation lost its observer
    hasHistory,      \* lookups: the history cards that have an item
    nextTokenId,        \* NFT contract: _nextTokenId
    owners,             \* NFT contract: _owners
    balances,           \* NFT contract: _balances
    tokenURIs,          \* NFT contract: _tokenURIs
    tokenApprovals,     \* NFT contract: _tokenApprovals
    operatorApprovals,  \* NFT contract: the pairs <<owner, operator>> set to true
    returned,           \* NFT contract: the values mint has returned, in call order
    nftCall             \* NFT contract: the last call, when it was a transferFrom

walletVars == <<ethData, walletRes, walletSaved>>
lookupVars == <<aiLookup, lookupRes, searches>>
chatVars == <<chatReq, aiChat, chatRes>>
serverVars == <<walletVars, lookupVars, chatVars>>
clientVars == <<portfolio, stored, lookupMutation, walletMutation, lastSearchType,
                chatLoading, chatCall, chatOver>>
deployVars == <<deployItems, chainBalance, pc, deployLoading, deployStatus, tokenChecks,
                idx, balance, amount, gasEstimate, gasCost, successCount, nEstimates,
                swaps, outcomes>>
normVars == <<normIn, normSite, normOut>>
histVars == <<dbSearches, dbWalletSearches, dbClock, lookupLog, histRead>>
poolVars == <<poolPc, deployingPoolId, poolTier, poolPct, poolBalance, poolAmount,
              poolGas, poolSwaps, poolToast>>
mintVars == <<mintPc, mintingNft, nftContract, nftDeployments, mintAddress, mintRuns>>
uiVars == <<isConnecting, lookupPending, walletPending, untracked, hasHistory>>
nftVars == <<nextTokenId, owners, balances, tokenURIs, tokenApprovals, operatorApprovals,
             returned, nftCall>>
extVars == <<histVars, poolVars, mintVars, uiVars, nftVars>>

vars == <<ethData, walletRes, walletSaved, aiLookup, lookupRes, searches,
          chatReq, aiChat, chatRes,
          portfolio, stored, lookupMutation, walletMutation, lastSearchType,
          chatLoading, chatCall, chatOver,
          deployItems, chainBalance, pc, deployLoading, deployStatus, tokenChecks,
          idx, balance, amount, gasEstimate, gasCost, successCount, nEstimates,
          swaps, outcomes,
          normIn, normSite, normOut,
          dbSearches, dbWalletSearches, dbClock, lookupLog, histRead,
          poolPc, deployingPoolId, poolTier, poolPct, poolBalance, poolAmount,
          poolGas, poolSwaps, poolToast,
          mintPc, mintingNft, nftContract, nftDeployments, mintAddress, mintRuns,
          isConnecting, lookupPending, walletPending, untracked, hasHistory,
          nextTokenId, owners, balances, tokenURIs, tokenApprovals, operatorApprovals,
          returned, nftCall>>

-----------------------------------------------------------------------------
(* Bounds of the model *)

MaxTokens == 5      \* entries in the explorer's token list
MaxUsd == 2         \* largest balanceUsd of one entry, in cents
MaxInvest == 6      \* investments in the AI's reply to a personality lookup
MaxItems == 3       \* items of the portfolio in the AI's reply to a chat edit
MaxBalance == 12    \* largest ETH balance of the connected address, in units
MaxNormLen == 3     \* length of a list fed to a normalization site
MaxLookups == 3     \* lookups served before the history is read
MaxMintRuns == 3    \* presses of the mint button
MaxUntracked == 2   \* lookup requests in flight that no mutation observes any more
MaxMints == 2       \* calls of the NFT contract's mint
NegSteps == 4       \* steps of 5 points below 0, and above 100, a percentage is drawn from

-----------------------------------------------------------------------------
(* Arithmetic shared by the handlers *)

\* a whole percentage in half points
Pts(n) == n * 2

IsWhole(h) == h % 2 = 0

Abs(x) == IF x < 0 THEN -x ELSE x

\* Math.round(num / den * 100) for den > 0: round half up, floor(x + 1/2)
RoundPct(num, den) == (200 * num + den) \div (2 * den)

RECURSIVE SumUsd(_)
\* rows.reduce((s, t) => s + t.balanceUsd, 0)
SumUsd(rows) == IF rows = <<>> THEN 0 ELSE Head(rows).balanceUsd + SumUsd(Tail(rows))

RECURSIVE SumPct(_)
\* items.reduce((s, t) => s + t.percentage, 0)
SumPct(items) == IF items = <<>> THEN 0 ELSE Head(items).percentage + SumPct(Tail(items))

Front(s) == SubSeq(s, 1, Len(s) - 1)

\* s.slice(0, n)
Slice(s, n) == SubSeq(s, 1, IF Len(s) < n THEN Len(s) ELSE n)

RECURSIVE SeqsUpTo(_, _)
\* all sequences over S of length at most n
SeqsUpTo(S, n) ==
    IF n = 0 THEN {<<>>}
    ELSE LET shorter == SeqsUpTo(S, n - 1)
         IN  shorter \cup {Append(s, x) : s \in {t \in shorter : Len(t) = n - 1}, x \in S}

None == [none |-> TRUE]

-----------------------------------------------------------------------------
(* POST /api/wallet/lookup *)

TopN == 5

\* one entry of data.tokens: tokenInfo with or without name and symbol, its
\* type ("" when absent) and the USD value balance * price comes to
TokenEntries ==
    [named : {TRUE}, type : {"ERC-20"}, usd : 0..MaxUsd]
        \cup {[named |-> TRUE, type |-> "", usd |-> MaxUsd],
              [named |-> FALSE, type |-> "ERC-20", usd |-> MaxUsd],
              [named |-> TRUE, type |-> "ERC-721", usd |-> 0]}

EthEntries == {[present |-> FALSE, usd |-> 0]} \cup [present : {TRUE}, usd : 0..MaxUsd]

\* what the explorer answers: not ok (502), an error object (400), or data
EthplorerAnswers ==
    {[kind |-> "http_error", eth |-> [present |-> FALSE, usd |-> 0], tokens |-> <<>>],
     [kind |-> "api_error", eth |-> [present |-> FALSE, usd |-> 0], tokens |-> <<>>]}
        \cup [kind : {"data"}, eth : EthEntries, tokens : SeqsUpTo(TokenEntries, MaxTokens)]

\* the loop's two continue conditions
IsCandidate(tok) == tok.named /\ (tok.type = "" \/ tok.type = "ERC-20")

RECURSIVE TokenRows(_, _)
\* the rows the loop over data.tokens pushes, from entry i on; sym i names entry i
TokenRows(tokens, i) ==
    IF i > Len(tokens) THEN <<>>
    ELSE (IF IsCandidate(tokens[i])
            THEN <<[sym |-> i, balanceUsd |-> tokens[i].usd]>>
            ELSE <<>>) \o TokenRows(tokens, i + 1)

\* rawTokens: the ETH row first (sym 0) when data.ETH is present
RawTokens(data) ==
    (IF data.eth.present THEN <<[sym |-> 0, balanceUsd |-> data.eth.usd]>> ELSE <<>>)
        \o TokenRows(data.tokens, 1)

RECURSIVE InsertDesc(_, _)
InsertDesc(t, s) ==
    IF s = <<>> THEN <<t>>
    ELSE IF Head(s).balanceUsd >= t.balanceUsd
           THEN <<Head(s)>> \o InsertDesc(t, Tail(s))
           ELSE <<t>> \o s

\* the sort left out: the explorer's order is kept
SortByUsdDescMissing(s) == s

RECURSIVE SortByUsdAsc(_)
\* the comparator turned round: ascending
SortByUsdAsc(s) ==
    IF s = <<>> THEN <<>>
    ELSE LET rest == SortByUsdAsc(Front(s))
             below == SelectSeq(rest, LAMBDA t : t.balanceUsd <= s[Len(s)].balanceUsd)
             above == SelectSeq(rest, LAMBDA t : t.balanceUsd > s[Len(s)].balanceUsd)
         IN  below \o <<s[Len(s)]>> \o above

RECURSIVE SortByUsdDesc(_)
\* rawTokens.sort((a, b) => b.balanceUsd - a.balanceUsd): descending, stable
SortByUsdDesc(s) ==
    IF s = <<>> THEN <<>> ELSE InsertDesc(s[Len(s)], SortByUsdDesc(Front(s)))

\* the map taking every total for 0
WalletSharesEqual(rows) ==
    [i \in 1..Len(rows) |->
        [sym |-> rows[i].sym, balanceUsd |-> rows[i].balanceUsd,
         percentage |-> (200 + Len(rows)) \div (2 * Len(rows))]]

\* the map of lines 229-232: each row's rounded share, or round(100 / n) when
\* the total is 0
WalletShares(rows) ==
    LET totalUsd == SumUsd(rows)
    IN  [i \in 1..Len(rows) |->
            [sym |-> rows[i].sym, balanceUsd |-> rows[i].balanceUsd,
             percentage |-> IF totalUsd > 0
                              THEN RoundPct(rows[i].balanceUsd, totalUsd)
                              ELSE RoundPct(1, Len(rows))]]

\* the correction left out
FirstItemFixMissing(rows) == rows

\* lines 233-236: the whole difference to 100 goes to the first row
FirstItemFix(rows) ==
    LET pctSum == SumPct(rows)
    IN  IF pctSum # 100 /\ Len(rows) > 0
          THEN [rows EXCEPT ![1].percentage = @ + 100 - pctSum]
          ELSE rows

\* lines 228-236 on the rows that were kept
WalletNormalize(rows) == FirstItemFix(WalletShares(rows))

\* lines 226-236
TopTokens(data) == WalletNormalize(Slice(SortByUsdDesc(RawTokens(data)), TopN))

\* the handler, from the explorer's answer to the response
WalletResponse(data) ==
    CASE data.kind = "http_error" -> [status |-> 502, tokens |-> <<>>]
      [] data.kind = "api_error" -> [status |-> 400, tokens |-> <<>>]
      [] OTHER -> [status |-> 200, tokens |-> TopTokens(data)]

WalletIdle == ethData = None /\ walletRes = None /\ walletSaved = <<>>
LookupIdle == aiLookup = None /\ lookupRes = None /\ searches = <<>>
ChatIdle == chatReq = <<>> /\ aiChat = None /\ chatRes = None

\* a mutation: its status, and its data when it has one
Mutation(st, has, d) == [status |-> st, hasData |-> has, data |-> d]

IdleMutation == Mutation("idle", FALSE, <<>>)

NoChecks == [set |-> FALSE, checks |-> <<>>]
NoStatus == [kind |-> "none", symbols |-> <<>>, done |-> 0, of |-> 0]

\* no deployment under way, and none asked for
DeployIdle ==
    /\ deployItems = <<>>
    /\ chainBalance = 0
    /\ pc = "idle"
    /\ deployLoading = FALSE
    /\ deployStatus = NoStatus
    /\ tokenChecks = NoChecks
    /\ idx = 0 /\ balance = 0 /\ amount = 0 /\ gasEstimate = 0 /\ gasCost = 0
    /\ successCount = 0 /\ nEstimates = 0
    /\ swaps = <<>> /\ outcomes = <<>>

\* the page as it first renders, with nothing in localStorage
NoRead == [set |-> FALSE, table |-> "", at |-> 0, rows |-> <<>>]

HistIdle ==
    /\ dbSearches = <<>> /\ dbWalletSearches = <<>>
    /\ dbClock = 0
    /\ lookupLog = <<>>
    /\ histRead = NoRead

PoolIdle ==
    /\ poolPc = "idle"
    /\ deployingPoolId = 0
    /\ poolTier = 0 /\ poolPct = 0 /\ poolBalance = 0 /\ poolAmount = 0 /\ poolGas = 0
    /\ poolSwaps = <<>>
    /\ poolToast = "none"

MintIdle ==
    /\ mintPc = "idle"
    /\ mintingNft = FALSE
    /\ nftContract = 0
    /\ nftDeployments = 0
    /\ mintAddress = 0
    /\ mintRuns = <<>>

UiIdle ==
    /\ isConnecting = FALSE
    /\ lookupPending = FALSE /\ walletPending = FALSE
    /\ untracked = 0
    /\ hasHistory = {}

\* the contract as deployed: every mapping at its default
Addresses == {0, 1, 2}
TokenIds == 0..(MaxMints - 1)

\* no transferFrom was the last call
NoCall == [sender |-> 0, from |-> 0, to |-> 0, tokenId |-> 0, result |-> "none"]

NftIdle ==
    /\ nftCall = NoCall
    /\ nextTokenId = 0
    /\ owners = [t \in TokenIds |-> 0]
    /\ balances = [a \in Addresses |-> 0]
    /\ tokenURIs = [t \in TokenIds |-> ""]
    /\ tokenApprovals = [t \in TokenIds |-> 0]
    /\ operatorApprovals = {}
    /\ returned = <<>>

\* the subsystems beyond the handlers, the page and the whole-portfolio run
ExtIdle == HistIdle /\ PoolIdle /\ MintIdle /\ UiIdle /\ NftIdle

NormIdle == normIn = <<>> /\ normSite = "none" /\ normOut = <<>>

ClientIdle ==
    /\ portfolio = None
    /\ stored = None
    /\ lookupMutation = IdleMutation
    /\ walletMutation = IdleMutation
    /\ lastSearchType = "none"
    /\ chatLoading = FALSE
    /\ chatCall = None
    /\ chatOver = "none"

WalletInit ==
    /\ ethData \in EthplorerAnswers
    /\ walletRes = None
    /\ walletSaved = <<>>
    /\ LookupIdle /\ ChatIdle /\ ClientIdle /\ DeployIdle /\ NormIdle /\ ExtIdle

\* POST /api/wallet/lookup: fetch, build, normalize, save, answer
WalletLookup ==
    /\ walletRes = None
    /\ walletRes' = WalletResponse(ethData)
    /\ walletSaved' = IF ethData.kind = "data"
                        THEN Append(walletSaved, TopTokens(ethData))
                        ELSE walletSaved
    /\ UNCHANGED <<ethData, lookupVars, chatVars, clientVars, deployVars, normVars, extVars>>

WalletNext == WalletLookup

SpecWallet == WalletInit /\ [][WalletNext]_vars

-----------------------------------------------------------------------------
(* Claims about the wallet lookup *)

WalletAnswered == walletRes # None /\ walletRes.status = 200

\* the rows before normalization, as the handler holds them at line 227
Top5Raw == Slice(SortByUsdDesc(RawTokens(ethData)), TopN)

\* C2: every wallet lookup that returns at least one token returns
\* percentages that sum to exactly 100, for any non-negative USD balances.
C2_WalletSumIs100 ==
    (WalletAnswered /\ Len(walletRes.tokens) >= 1)
        => SumPct(walletRes.tokens) = 100

\* C2 witness: a lookup answered with several tokens whose rounded shares did
\* not sum to 100, so that the first-item correction acted.
C2_Witness ==
    /\ WalletAnswered
    /\ Len(walletRes.tokens) >= 3
    /\ SumUsd(Top5Raw) > 0
    /\ SumPct(WalletShares(Top5Raw)) # 100
    /\ SumPct(walletRes.tokens) = 100

ReturnedSyms == {walletRes.tokens[i].sym : i \in 1..Len(walletRes.tokens)}

\* the USD value of the entry a sym names
UsdOfSym(s) == IF s = 0 THEN ethData.eth.usd ELSE ethData.tokens[s].usd

Min(a, b) == IF a < b THEN a ELSE b

\* the response is the top of pool: at most 5 rows, distinct, all from pool,
\* as many as pool allows, in descending order of USD value, and no entry of
\* pool that was left out is worth more than a row that was returned
IsTopOf(pool) ==
    LET toks == walletRes.tokens
    IN  /\ Len(toks) <= 5
        /\ Len(toks) = Min(5, Cardinality(pool))
        /\ Cardinality(ReturnedSyms) = Len(toks)
        /\ ReturnedSyms \subseteq pool
        /\ \A i \in 1..Len(toks) : toks[i].balanceUsd = UsdOfSym(toks[i].sym)
        /\ \A i \in 1..Len(toks) - 1 : toks[i].balanceUsd >= toks[i + 1].balanceUsd
        /\ \A s \in pool \ ReturnedSyms :
              \A i \in 1..Len(toks) : UsdOfSym(s) <= toks[i].balanceUsd

EthSyms == IF ethData.eth.present THEN {0} ELSE {}

\* ETH and every ERC-20 token of the address (typed ERC-20, or not typed)
Erc20Pool ==
    EthSyms \cup {i \in 1..Len(ethData.tokens) : ethData.tokens[i].type \in {"", "ERC-20"}}

\* ETH and the ERC-20 tokens whose tokenInfo carries a name and a symbol
NamedErc20Pool ==
    EthSyms \cup {i \in 1..Len(ethData.tokens) : IsCandidate(ethData.tokens[i])}

\* C27: the wallet lookup never returns a negative percentage: the rows are
\* sorted by USD value, largest first, and cut to five before the rounding,
\* so for any non-negative balances every returned percentage is a
\* non-negative integer, the corrected first one included.
C27_WalletPercentagesNonNegative ==
    WalletAnswered =>
        \A i \in 1..Len(walletRes.tokens) : walletRes.tokens[i].percentage \in 0..100

\* C27 witness: five rows whose rounded shares sum to more than 100, so that
\* the correction lowered the first one.
C27_Witness ==
    /\ WalletAnswered
    /\ Len(walletRes.tokens) = TopN
    /\ SumPct(WalletShares(Top5Raw)) > 100
    /\ walletRes.tokens[1].percentage < WalletShares(Top5Raw)[1].percentage
    /\ walletRes.tokens[1].percentage >= 0

\* C8 as stated: the response holds at most 5 tokens, the highest-valued by
\* USD balance, descending, among ETH and the ERC-20 tokens of the address.
C8_TopFiveOfAllErc20 == WalletAnswered => IsTopOf(Erc20Pool)

\* C8 amended: the response holds at most 5 tokens, the highest-valued by USD
\* balance, descending, among ETH and the ERC-20 tokens that carry a name and
\* a symbol; ETH is among them whenever it ranks in the top 5 of those.
C8_TopFiveOfNamedErc20 == WalletAnswered => IsTopOf(NamedErc20Pool)

\* C8 witness: six candidates, ETH among them and returned, one candidate cut
\* by the truncation, and the explorer's order was not the returned order.
C8_Witness ==
    /\ WalletAnswered
    /\ Cardinality(NamedErc20Pool) = 6
    /\ Len(walletRes.tokens) = 5
    /\ 0 \in ReturnedSyms
    /\ walletRes.tokens[1].sym # 0
    /\ walletRes.tokens[1].balanceUsd > walletRes.tokens[5].balanceUsd

-----------------------------------------------------------------------------
(* What the AI may answer *)

Names == <<"Bitcoin", "Ethereum", "Dogecoin", "Solana", "Cardano", "Ripple", "Litecoin">>

\* a value of a JSON field that should be a string, by its type and its text
ReplyValues ==
    {[type |-> "absent", text |-> ""],
     [type |-> "string", text |-> ""],
     [type |-> "string", text |-> "Done."],
     [type |-> "number", text |-> "0"],
     [type |-> "number", text |-> "7"],
     [type |-> "boolean", text |-> "false"],
     [type |-> "boolean", text |-> "true"],
     [type |-> "null", text |-> "null"],
     [type |-> "object", text |-> "{}"]}

IsString(v) == v.type = "string"

\* JavaScript's truthiness of the value, as || reads it
Truthy(v) ==
    /\ v.type \notin {"absent", "null"}
    /\ ~(v.type = "string" /\ v.text = "")
    /\ ~(v.type = "number" /\ v.text = "0")
    /\ ~(v.type = "boolean" /\ v.text = "false")

Str(t) == [type |-> "string", text |-> t]

\* item i of a list carries the i-th name; isNumber says whether its
\* percentage is a JSON number (pct then holds it, in half points)
ItemLists(numbers, n) ==
    {[i \in 1..Len(ps) |-> [name |-> Names[i], percentage |-> ps[i], isNumber |-> TRUE]] :
        ps \in SeqsUpTo(numbers, n)}

\* a list field of the reply: absent, not an array, an array with an item
\* whose percentage is a string, or an array of well-formed items
ListFields(numbers, n) ==
    {[shape |-> "absent", items |-> <<>>],
     [shape |-> "not_array", items |-> <<>>],
     [shape |-> "array",
      items |-> <<[name |-> Names[1], percentage |-> 0, isNumber |-> FALSE]>>]}
        \cup [shape : {"array"}, items : ItemLists(numbers, n)]

\* z.array(z.object({name: z.string(), percentage: z.number()}))
ListIsValid(f) ==
    f.shape = "array" /\ \A i \in 1..Len(f.items) : f.items[i].isNumber

\* the validated items: name and percentage
Validated(items) ==
    [i \in 1..Len(items) |-> [name |-> items[i].name, percentage |-> items[i].percentage]]

NoList == [shape |-> "absent", items |-> <<>>]
NoReply == [type |-> "absent", text |-> ""]

\* the content of the completion: none, text that is not JSON, or a JSON
\* value (null, a scalar, an array, an object with its two fields)
Contents(replies, lists) ==
    [kind : {"empty", "text", "null", "scalar", "array"}, reply : {NoReply}, list : {NoList}]
        \cup [kind : {"object"}, reply : replies, list : lists]

-----------------------------------------------------------------------------
(* POST /api/crypto/lookup *)

LookupNumbers == {0, Pts(20), Pts(33) + 1, Pts(50)}

LookupContents ==
    Contents({NoReply}, ListFields(LookupNumbers, MaxInvest))

\* the items taken without the parse and the schema
Top5Unchecked(content) == Slice(Validated(content.list.items), TopN)

\* lines 117-137: top5 from the content; an empty content reads as
\* {"investments":[]}, a parse or schema failure gives []
Top5(content) ==
    IF content.kind = "object" /\ ListIsValid(content.list)
      THEN Slice(Validated(content.list.items), TopN)
      ELSE <<>>

LookupInit ==
    /\ aiLookup \in LookupContents
    /\ lookupRes = None
    /\ searches = <<>>
    /\ WalletIdle /\ ChatIdle /\ ClientIdle /\ DeployIdle /\ NormIdle /\ ExtIdle

\* POST /api/crypto/lookup: ask, parse, validate, save, answer
CryptoLookup ==
    /\ lookupRes = None
    /\ searches' = Append(searches, Top5(aiLookup))
    /\ lookupRes' = [status |-> 200, investments |-> Top5(aiLookup)]
    /\ UNCHANGED <<aiLookup, walletVars, chatVars, clientVars, deployVars, normVars, extVars>>

LookupNext == CryptoLookup

SpecLookup == LookupInit /\ [][LookupNext]_vars

-----------------------------------------------------------------------------
(* POST /api/portfolio/chat *)

ChatNumbers ==
    {0 - Pts(50), 0, 1, Pts(30), Pts(50), Pts(50) + 1, Pts(100), Pts(150)}

ChatContents == Contents(ReplyValues, ListFields(ChatNumbers, MaxItems))

\* the portfolios the client may send
ChatRequests ==
    {<<>>,
     <<[name |-> "Bitcoin", percentage |-> Pts(100)]>>,
     <<[name |-> "Bitcoin", percentage |-> Pts(60)],
       [name |-> "Dogecoin", percentage |-> Pts(40)]>>}

\* line 465: total > 0 && Math.abs(total - 100) > 0.5
NeedsRescale(total) == total > 0 /\ Abs(total - Pts(100)) > 1

\* line 466: each percentage becomes Math.round(percentage / total * 100)
Rescaled(items, total) ==
    [i \in 1..Len(items) |->
        [items[i] EXCEPT !.percentage = Pts(RoundPct(items[i].percentage, total))]]

ChatLastItemFix(items) ==
    LET diff == Pts(100) - SumPct(items)
    IN  IF diff # 0 THEN [items EXCEPT ![Len(items)].percentage = @ + diff] ELSE items

\* lines 467-468: the difference to 100 goes to the first item
ChatFirstItemFix(items) ==
    LET diff == Pts(100) - SumPct(items)
    IN  IF diff # 0 THEN [items EXCEPT ![1].percentage = @ + diff] ELSE items

\* lines 462-470
ChatRescale(items) ==
    IF Len(items) > 0 /\ NeedsRescale(SumPct(items))
      THEN ChatFirstItemFix(Rescaled(items, SumPct(items)))
      ELSE items

ParseFailedReply == Str("I had trouble processing that. Could you try rephrasing?")
UpdateFailedReply == Str("I had trouble updating the portfolio. Please try again.")

ServerError == [status |-> 500, reply |-> NoReply, portfolio |-> <<>>]

\* lines 436-476, from the content to the response
ChatResponse(reqPortfolio, content) ==
    CASE content.kind = "empty" -> ServerError
      [] content.kind = "text" ->
            [status |-> 200, reply |-> ParseFailedReply, portfolio |-> reqPortfolio]
      [] content.kind = "null" -> ServerError    \* parsed.reply throws on null
      [] content.kind \in {"scalar", "array"} ->
            [status |-> 200, reply |-> UpdateFailedReply, portfolio |-> reqPortfolio]
      [] OTHER ->
            IF IsString(content.reply) /\ ListIsValid(content.list)
              THEN [status |-> 200, reply |-> content.reply,
                    portfolio |-> ChatRescale(Validated(content.list.items))]
              ELSE [status |-> 200,
                    reply |-> IF Truthy(content.reply) THEN content.reply
                                                       ELSE UpdateFailedReply,
                    portfolio |-> reqPortfolio]

ChatInit ==
    /\ chatReq \in ChatRequests
    /\ aiChat \in ChatContents
    /\ chatRes = None
    /\ WalletIdle /\ LookupIdle /\ ClientIdle /\ DeployIdle /\ NormIdle /\ ExtIdle

\* POST /api/portfolio/chat: ask, parse, validate, rescale, answer
PortfolioChat ==
    /\ chatRes = None
    /\ chatRes' = ChatResponse(chatReq, aiChat)
    /\ UNCHANGED <<chatReq, aiChat, walletVars, lookupVars, clientVars, deployVars, normVars, extVars>>

ChatNext == PortfolioChat

SpecChat == ChatInit /\ [][ChatNext]_vars

-----------------------------------------------------------------------------
(* Claims about the personality lookup and the chat edit *)

\* every percentage a whole, non-negative number, and the sum exactly 100
IsNormalized(items) ==
    /\ \A i \in 1..Len(items) : IsWhole(items[i].percentage) /\ items[i].percentage >= 0
    /\ SumPct(items) = Pts(100)

LookupPassesSchema == aiLookup.kind = "object" /\ ListIsValid(aiLookup.list)

\* C3: a personality lookup whose AI reply passes the schema with at least
\* one investment stores and returns normalized investments: whole
\* percentages summing to exactly 100, whatever the AI returned.
C3_LookupIsNormalized ==
    (lookupRes # None /\ LookupPassesSchema /\ Len(aiLookup.list.items) >= 1)
        => /\ IsNormalized(lookupRes.investments)
           /\ IsNormalized(searches[Len(searches)])

ChatPassesSchema ==
    aiChat.kind = "object" /\ IsString(aiChat.reply) /\ ListIsValid(aiChat.list)

AiTotal == SumPct(aiChat.list.items)

\* C4: a schema-valid, non-empty portfolio from the AI whose percentages do
\* not sum to 100 within 0.5 is rescaled before it is accepted, so the
\* returned percentages sum to exactly 100.
C4_ChatRescalesTo100 ==
    (/\ chatRes # None
     /\ ChatPassesSchema
     /\ Len(aiChat.list.items) >= 1
     /\ Abs(AiTotal - Pts(100)) > 1)
        => /\ chatRes.status = 200
           /\ SumPct(chatRes.portfolio) = Pts(100)

\* a content that is not empty and is not JSON, or is JSON failing the schema
ChatMalformed == aiChat.kind # "empty" /\ ~ChatPassesSchema

\* C5: on a malformed AI reply the chat handler answers successfully with the
\* request's portfolio unchanged and a reply that is a non-empty string.
C5_MalformedKeepsPortfolio ==
    (chatRes # None /\ ChatMalformed)
        => /\ chatRes.status = 200
           /\ chatRes.portfolio = chatReq
           /\ IsString(chatRes.reply)
           /\ chatRes.reply.text # ""

\* floor(100 / n), plus one for the first 100 mod n items
EqualShare(n, i) == (100 \div n) + (IF i <= 100 % n THEN 1 ELSE 0)

AllZero(items) == \A i \in 1..Len(items) : items[i].percentage = 0

\* C9: an all-zero list of length n >= 1 reaching a normalization call site
\* comes out as equal shares: floor(100/n) each, plus one for the first
\* 100 mod n items.  Stated at the chat handler's call site.
C9_ChatAllZeroEqualShares ==
    (/\ chatRes # None
     /\ ChatPassesSchema
     /\ Len(aiChat.list.items) >= 1
     /\ AllZero(aiChat.list.items))
        => /\ Len(chatRes.portfolio) = Len(aiChat.list.items)
           /\ \A i \in 1..Len(chatRes.portfolio) :
                 chatRes.portfolio[i].percentage = Pts(EqualShare(Len(chatRes.portfolio), i))

\* the same at the wallet handler's call site, where at most 5 rows arrive
WalletAllZeroEqualShares ==
    (WalletAnswered /\ Len(walletRes.tokens) >= 1 /\ SumUsd(Top5Raw) = 0)
        => \A i \in 1..Len(walletRes.tokens) :
              walletRes.tokens[i].percentage = EqualShare(Len(walletRes.tokens), i)

-----------------------------------------------------------------------------
(* The client page: lookups, the portfolio store and the chat edit *)

\* the AI contents and explorer answers the page's requests are answered from
PageLookupContents == Contents({NoReply}, ListFields({Pts(20), Pts(50)}, 2))

PageChatContents == Contents({Str("Done."), NoReply}, ListFields({0, Pts(30), Pts(50)}, 2))

PageEthAnswers ==
    {[kind |-> "api_error", eth |-> [present |-> FALSE, usd |-> 0], tokens |-> <<>>]}
        \cup [kind : {"data"},
              eth : {[present |-> FALSE, usd |-> 0], [present |-> TRUE, usd |-> 1]},
              tokens : SeqsUpTo({[named |-> TRUE, type |-> "ERC-20", usd |-> 1]}, 2)]

\* lookupMutation.isPending || walletMutation.isPending
isPending == lookupMutation.status = "pending" \/ walletMutation.status = "pending"

\* the effect on [portfolio]: setItem when present, removeItem when null
SetPortfolio(p) ==
    /\ portfolio' = p
    /\ stored' = p

\* handleSubmit with a query that is not an address (the button is disabled
\* while a lookup is pending)
SubmitPersonality ==
    /\ ~isPending
    /\ lastSearchType' = "personality"
    /\ walletMutation' = IdleMutation
    /\ lookupMutation' = Mutation("pending", FALSE, <<>>)
    /\ UNCHANGED <<portfolio, stored, chatLoading, chatCall, chatOver, serverVars, deployVars, normVars, extVars>>

\* handleSubmit with a query that is an address
SubmitWallet ==
    /\ ~isPending
    /\ lastSearchType' = "wallet"
    /\ lookupMutation' = IdleMutation
    /\ walletMutation' = Mutation("pending", FALSE, <<>>)
    /\ UNCHANGED <<portfolio, stored, chatLoading, chatCall, chatOver, serverVars, deployVars, normVars, extVars>>

\* POST /api/crypto/lookup answers 200 with the handler's investments
LookupSucceeds ==
    /\ lookupMutation.status = "pending"
    /\ \E content \in PageLookupContents :
          lookupMutation' = Mutation("success", TRUE, Top5(content))
    /\ UNCHANGED <<portfolio, stored, walletMutation, lastSearchType, chatLoading,
                   chatCall, chatOver, serverVars, deployVars, normVars, extVars>>

\* the request fails, or the handler answers 400 or 500
LookupFails ==
    /\ lookupMutation.status = "pending"
    /\ lookupMutation' = Mutation("error", FALSE, <<>>)
    /\ UNCHANGED <<portfolio, stored, walletMutation, lastSearchType, chatLoading,
                   chatCall, chatOver, serverVars, deployVars, normVars, extVars>>

\* POST /api/wallet/lookup answers 200 with the handler's tokens
WalletSucceeds ==
    /\ walletMutation.status = "pending"
    /\ \E data \in PageEthAnswers :
          /\ WalletResponse(data).status = 200
          /\ walletMutation' = Mutation("success", TRUE, WalletResponse(data).tokens)
    /\ UNCHANGED <<portfolio, stored, lookupMutation, lastSearchType, chatLoading,
                   chatCall, chatOver, serverVars, deployVars, normVars, extVars>>

\* the request fails, or the handler answers 400, 500 or 502
WalletFails ==
    /\ walletMutation.status = "pending"
    /\ \E data \in PageEthAnswers : WalletResponse(data).status # 200
    /\ walletMutation' = Mutation("error", FALSE, <<>>)
    /\ UNCHANGED <<portfolio, stored, lookupMutation, lastSearchType, chatLoading,
                   chatCall, chatOver, serverVars, deployVars, normVars, extVars>>

\* button-clone-personality, shown with the personality result
ClonePersonality ==
    /\ lookupMutation.hasData
    /\ lookupMutation.status # "pending"
    /\ lastSearchType = "personality"
    /\ SetPortfolio([source |-> "person",
                     items |-> [i \in 1..Len(lookupMutation.data) |->
                                   [name |-> lookupMutation.data[i].name,
                                    percentage |-> lookupMutation.data[i].percentage]]])
    /\ UNCHANGED <<lookupMutation, walletMutation, lastSearchType, chatLoading,
                   chatCall, chatOver, serverVars, deployVars, normVars, extVars>>

\* button-clone-wallet, shown with the wallet result; row sym is named
\* Names[sym + 1], and its whole percentage is held in half points
CloneWallet ==
    /\ walletMutation.hasData
    /\ walletMutation.status # "pending"
    /\ lastSearchType = "wallet"
    /\ SetPortfolio([source |-> "wallet",
                     items |-> [i \in 1..Len(walletMutation.data) |->
                                   [name |-> Names[walletMutation.data[i].sym + 1],
                                    percentage |-> Pts(walletMutation.data[i].percentage)]]])
    /\ UNCHANGED <<lookupMutation, walletMutation, lastSearchType, chatLoading,
                   chatCall, chatOver, serverVars, deployVars, normVars, extVars>>

\* button-clear-portfolio, shown while a portfolio is present
ClearPortfolio ==
    /\ portfolio # None
    /\ SetPortfolio(None)
    /\ UNCHANGED <<lookupMutation, walletMutation, lastSearchType, chatLoading,
                   chatCall, chatOver, serverVars, deployVars, normVars, extVars>>

\* portfolio?.items ?? []
ItemsOf(p) == IF p = None THEN <<>> ELSE p.items

WrittenKeepsPrev(prev, newItems) == prev

\* lines 126-135: an empty list clears the portfolio, any other replaces the
\* items and keeps the source of the portfolio held when the reply arrives
Written(prev, newItems) ==
    IF Len(newItems) = 0
      THEN None
      ELSE [source |-> IF prev = None THEN "AI Chat" ELSE prev.source,
            items |-> newItems]

\* sendChatMessage up to the request: portfolio?.items ?? [] is sent
SendChat ==
    /\ ~chatLoading
    /\ chatLoading' = TRUE
    /\ chatCall' = [portfolio |-> ItemsOf(portfolio)]
    /\ UNCHANGED <<portfolio, stored, lookupMutation, walletMutation, lastSearchType,
                   chatOver, serverVars, deployVars, normVars, extVars>>

\* sendChatMessage from the response on: a 200 response carries a portfolio,
\* empty clears, non-empty replaces the items and keeps the source; a 500
\* response carries none; finally clears the flag
ChatSettles ==
    /\ chatLoading /\ chatCall # None
    /\ \E content \in PageChatContents :
          LET res == ChatResponse(chatCall.portfolio, content)
          IN  IF res.status # 200
                THEN UNCHANGED <<portfolio, stored>> /\ chatOver' = "failed"
                ELSE /\ SetPortfolio(Written(portfolio, res.portfolio))
                     /\ chatOver' = IF ItemsOf(portfolio) = chatCall.portfolio
                                      THEN "sent" ELSE "other"
    /\ chatLoading' = FALSE
    /\ chatCall' = None
    /\ UNCHANGED <<lookupMutation, walletMutation, lastSearchType, serverVars, deployVars, normVars, extVars>>

\* the request throws: the catch branch, then finally
ChatFails ==
    /\ chatLoading /\ chatCall # None
    /\ chatLoading' = FALSE
    /\ chatCall' = None
    /\ chatOver' = "failed"
    /\ UNCHANGED <<portfolio, stored, lookupMutation, walletMutation, lastSearchType,
                   serverVars, deployVars, normVars, extVars>>

Init == WalletIdle /\ LookupIdle /\ ChatIdle /\ ClientIdle /\ DeployIdle /\ NormIdle /\ ExtIdle

Next ==
    \/ SubmitPersonality
    \/ SubmitWallet
    \/ LookupSucceeds
    \/ LookupFails
    \/ WalletSucceeds
    \/ WalletFails
    \/ ClonePersonality
    \/ CloneWallet
    \/ ClearPortfolio
    \/ SendChat
    \/ ChatSettles
    \/ ChatFails

Spec == Init /\ [][Next]_vars

\* C1: in every reachable client state, a portfolio that is present and has
\* at least one item has whole, non-negative percentages summing to 100.
C1_PortfolioIsNormalized ==
    (portfolio # None /\ Len(portfolio.items) >= 1) => IsNormalized(portfolio.items)

-----------------------------------------------------------------------------
(* deployPortfolio: the whole-portfolio deployment *)

\* ETH amounts are in units of 25 gwei; parseEther("0.00000005") is 2 units
DefaultGasPrice == 2

\* the portfolios a run is started on; an item's name stands for symbol || name
DeployPortfolios ==
    {<<>>,
     <<[name |-> "Bitcoin", percentage |-> Pts(100)]>>,
     <<[name |-> "Bitcoin", percentage |-> Pts(50)],
       [name |-> "Dogecoin", percentage |-> Pts(50)]>>,
     <<[name |-> "Bitcoin", percentage |-> Pts(60)],
       [name |-> "Ethereum", percentage |-> Pts(30)],
       [name |-> "Dogecoin", percentage |-> Pts(10)]>>,
     <<[name |-> "Bitcoin", percentage |-> Pts(100)],
       [name |-> "Dogecoin", percentage |-> 0]>>,
     <<[name |-> "Bitcoin", percentage |-> Pts(66) + 1],
       [name |-> "Dogecoin", percentage |-> Pts(33) + 1]>>,
     <<[name |-> "Bitcoin", percentage |-> Pts(70)],
       [name |-> "Bitcoin", percentage |-> Pts(30)]>>}

\* what estimateGas and getFeeData may answer; a gasPrice of 0 stands for null
GasEstimates == {1, 5}
GasPrices == {0, 1}

Status(k, syms, d, n) == [kind |-> k, symbols |-> syms, done |-> d, of |-> n]

\* BigInt division: the quotient truncated toward zero
TruncDiv(a, b) == IF a >= 0 THEN a \div b ELSE 0 - ((0 - a) \div b)

IsAvailable(t) == t.available

\* POST /api/uniswap/check-tokens, lines 277-288 of the routes: one result per
\* symbol, in order; listed holds the symbols the token list has
CheckTokens(items, listed) ==
    [i \in 1..Len(items) |-> [symbol |-> items[i].name,
                              available |-> items[i].name \in listed]]

SymbolsOf(items) == {items[i].name : i \in 1..Len(items)}

\* the filter of line 165 finding nothing
MissingNone(checks) == <<>>

\* line 165
Missing(checks) == SelectSeq(checks, LAMBDA t : ~t.available)

\* line 194: an available token has an address
AvailableTokens == SelectSeq(tokenChecks.checks, IsAvailable)

\* lines 202-204: the first item the token's symbol names
ItemOf(token) ==
    deployItems[CHOOSE i \in 1..Len(deployItems) :
                   /\ deployItems[i].name = token.symbol
                   /\ \A j \in 1..(i - 1) : deployItems[j].name # token.symbol]

PctOfToken(t) == ItemOf(t).percentage

RECURSIVE SumTokenPct(_)
\* tokens.reduce((sum, t) => sum + (item?.percentage || 0), 0)
SumTokenPct(tokens) ==
    IF tokens = <<>> THEN 0 ELSE PctOfToken(Head(tokens)) + SumTokenPct(Tail(tokens))

\* the reduce keeping its last term only
TotalOfLastToken ==
    IF AvailableTokens = <<>> THEN 0
    ELSE PctOfToken(AvailableTokens[Len(AvailableTokens)])

\* lines 196-199
TotalPercentage == SumTokenPct(AvailableTokens)

\* BigInt(totalPercentage > 0 ? totalPercentage : 100)
Divisor == IF TotalPercentage > 0 THEN TotalPercentage ELSE Pts(100)

\* the percentage of the asset in hand
CurrentPct == PctOfToken(AvailableTokens[idx])

\* (b * BigInt(item.percentage)) / BigInt(divisor)
Share(b) == TruncDiv(b * CurrentPct, Divisor)

GasCostNoMargin(estimate, price) ==
    estimate * (IF price = 0 THEN DefaultGasPrice ELSE price)

\* line 236
GasCost(estimate, price) ==
    (estimate * (IF price = 0 THEN DefaultGasPrice ELSE price) * 120) \div 100

\* lines 265-269
Summary(sc) ==
    IF sc > 0 THEN Status("summary", <<>>, sc, Len(AvailableTokens))
              ELSE Status("none_completed", <<>>, 0, 0)

\* the run returns: the status line, and the flag cleared
EndRun(st) ==
    /\ deployStatus' = st
    /\ deployLoading' = FALSE
    /\ pc' = "idle"

\* the loop after the asset in hand: the next token's balance read, or, past
\* the last token, the summary (sc is successCount, st the status line)
NextAsset(sc, st) ==
    IF idx < Len(AvailableTokens)
      THEN /\ idx' = idx + 1
           /\ pc' = "getBalance"
           /\ deployStatus' = st
           /\ UNCHANGED deployLoading
      ELSE /\ UNCHANGED idx
           /\ EndRun(Summary(sc))

Outcome(r) == [asset |-> idx, result |-> r]

DeployInit ==
    /\ deployItems \in DeployPortfolios
    /\ chainBalance \in 0..MaxBalance
    /\ pc = "idle"
    /\ deployLoading = FALSE
    /\ deployStatus = NoStatus
    /\ tokenChecks = NoChecks
    /\ idx = 0 /\ balance = 0 /\ amount = 0 /\ gasEstimate = 0 /\ gasCost = 0
    /\ successCount = 0 /\ nEstimates = 0
    /\ swaps = <<>> /\ outcomes = <<>>
    /\ WalletIdle /\ LookupIdle /\ ChatIdle /\ ClientIdle /\ NormIdle /\ ExtIdle

\* button-deploy-portfolio (disabled while deployLoading), lines 145-160, on
\* a page with a connected wallet
StartDeploy ==
    /\ pc = "idle" /\ ~deployLoading
    /\ Len(deployItems) > 0
    /\ deployLoading' = TRUE
    /\ deployStatus' = Status("checking", <<>>, 0, 0)
    /\ tokenChecks' = NoChecks
    /\ pc' = "checkTokens"
    /\ idx' = 0 /\ balance' = 0 /\ amount' = 0 /\ gasEstimate' = 0 /\ gasCost' = 0
    /\ successCount' = 0 /\ nEstimates' = 0
    /\ swaps' = <<>> /\ outcomes' = <<>>
    /\ UNCHANGED <<deployItems, chainBalance, serverVars, clientVars, normVars, extVars>>

\* lines 161-172: the checks arrive; any missing symbol ends the run
TokensChecked ==
    /\ pc = "checkTokens"
    /\ \E listed \in SUBSET SymbolsOf(deployItems) :
          LET checks == CheckTokens(deployItems, listed)
              missing == Missing(checks)
          IN  /\ tokenChecks' = [set |-> TRUE, checks |-> checks]
              /\ IF Len(missing) > 0
                   THEN EndRun(Status("unavailable",
                                      [i \in 1..Len(missing) |-> missing[i].symbol],
                                      Len(missing), 0))
                   ELSE /\ deployStatus' = Status("connecting", <<>>, 0, 0)
                        /\ pc' = "getNetwork"
                        /\ UNCHANGED deployLoading
    /\ UNCHANGED <<deployItems, chainBalance, idx, balance, amount, gasEstimate, gasCost,
                   successCount, nEstimates, swaps, outcomes, serverVars, clientVars, normVars, extVars>>

\* lines 177-182
NetworkRead ==
    /\ pc = "getNetwork"
    /\ \E sepolia \in BOOLEAN :
          IF sepolia
            THEN pc' = "getFirstBalance" /\ UNCHANGED <<deployStatus, deployLoading>>
            ELSE EndRun(Status("wrong_network", <<>>, 0, 0))
    /\ UNCHANGED <<deployItems, chainBalance, tokenChecks, idx, balance, amount,
                   gasEstimate, gasCost, successCount, nEstimates, swaps, outcomes,
                   serverVars, clientVars, normVars, extVars>>

\* lines 184-205: the signer, the first balance, and into the loop
FirstBalanceRead ==
    /\ pc = "getFirstBalance"
    /\ balance' = chainBalance
    /\ IF chainBalance = 0
         THEN EndRun(Status("zero_balance", <<>>, 0, 0)) /\ UNCHANGED idx
         ELSE /\ idx' = 1
              /\ pc' = "getBalance"
              /\ UNCHANGED <<deployStatus, deployLoading>>
    /\ UNCHANGED <<deployItems, chainBalance, tokenChecks, amount, gasEstimate, gasCost,
                   successCount, nEstimates, swaps, outcomes, serverVars, clientVars, normVars, extVars>>

\* lines 207-212: the iteration's balance and the preliminary amount; BigInt
\* throws on a percentage that is not whole, which the outer catch reports
BalanceRead ==
    /\ pc = "getBalance"
    /\ balance' = chainBalance
    /\ IF ~IsWhole(CurrentPct) \/ ~IsWhole(TotalPercentage)
         THEN /\ EndRun(Status("error", <<>>, 0, 0))
              /\ outcomes' = Append(outcomes, Outcome("error"))
              /\ UNCHANGED <<idx, amount>>
         ELSE IF Share(chainBalance) = 0
                THEN /\ NextAsset(successCount, deployStatus)
                     /\ outcomes' = Append(outcomes, Outcome("skipped"))
                     /\ UNCHANGED amount
                ELSE /\ amount' = Share(chainBalance)
                     /\ deployStatus' = Status("estimating", <<>>, 0, 0)
                     /\ pc' = "estimateGas"
                     /\ UNCHANGED <<idx, deployLoading, outcomes>>
    /\ UNCHANGED <<deployItems, chainBalance, tokenChecks, gasEstimate, gasCost,
                   successCount, nEstimates, swaps, serverVars, clientVars, normVars, extVars>>

\* line 227: the estimate arrives
GasEstimated ==
    /\ pc = "estimateGas"
    /\ \E g \in GasEstimates : gasEstimate' = g
    /\ nEstimates' = nEstimates + 1
    /\ pc' = "getFeeData"
    /\ UNCHANGED <<deployItems, chainBalance, deployLoading, deployStatus, tokenChecks, idx,
                   balance, amount, gasCost, successCount, swaps, outcomes,
                   serverVars, clientVars, normVars, extVars>>

\* the catch of lines 228-232 after a failed estimation: a toast, and continue
EstimateGasCatch(sc, st) == NextAsset(sc, st)

\* lines 227-232: estimateGas throws
GasEstimateFails ==
    /\ pc = "estimateGas"
    /\ nEstimates' = nEstimates + 1
    /\ EstimateGasCatch(successCount, deployStatus)
    /\ outcomes' = Append(outcomes, Outcome("gas_failed"))
    /\ UNCHANGED <<deployItems, chainBalance, tokenChecks, balance, amount, gasEstimate,
                   gasCost, successCount, swaps, serverVars, clientVars, normVars, extVars>>

\* lines 234-248: the gas cost, the halt, the final amount
FeeDataRead ==
    /\ pc = "getFeeData"
    /\ \E price \in GasPrices :
          LET cost == GasCost(gasEstimate, price)
          IN  /\ gasCost' = cost
              /\ IF cost >= balance
                   THEN /\ EndRun(Summary(successCount))    \* break, then line 265
                        /\ outcomes' = Append(outcomes, Outcome("halted"))
                        /\ UNCHANGED <<idx, amount>>
                   ELSE IF Share(balance - cost) = 0
                          THEN /\ NextAsset(successCount, deployStatus)
                               /\ outcomes' = Append(outcomes, Outcome("skipped"))
                               /\ UNCHANGED amount
                          ELSE /\ amount' = Share(balance - cost)
                               /\ deployStatus' = Status("swapping", <<>>, 0, 0)
                               /\ pc' = "swap"
                               /\ UNCHANGED <<idx, deployLoading, outcomes>>
    /\ UNCHANGED <<deployItems, chainBalance, tokenChecks, balance, gasEstimate,
                   successCount, nEstimates, swaps, serverVars, clientVars, normVars, extVars>>

Swap(r) == [asset |-> idx, amountIn |-> amount, balance |-> balance, gasCost |-> gasCost,
            result |-> r]

\* lines 250-254: the transaction is sent and confirms; the wallet pays the
\* amount and the gas
SwapConfirms ==
    /\ pc = "swap"
    /\ swaps' = Append(swaps, Swap("confirmed"))
    /\ successCount' = successCount + 1
    /\ \E fee \in {0, gasCost} :
          chainBalance' = IF chainBalance >= amount + fee THEN chainBalance - amount - fee
                                                           ELSE 0
    /\ NextAsset(successCount + 1, deployStatus)
    /\ outcomes' = Append(outcomes, Outcome("swapped"))
    /\ UNCHANGED <<deployItems, tokenChecks, balance, amount, gasEstimate, gasCost,
                   nEstimates, serverVars, clientVars, normVars, extVars>>

\* a failed swap ending the loop
SwapCatchBreaks(sc, st) == UNCHANGED idx /\ EndRun(Summary(sc))

\* the catch of lines 255-262 after a failed swap: a toast, and the loop goes on
SwapCatch(sc, st) == NextAsset(sc, st)

\* lines 250-262: the user rejects the transaction, or it reverts (and the
\* wallet pays the gas)
SwapFails ==
    /\ pc = "swap"
    /\ \E r \in {"rejected", "reverted"} :
          /\ swaps' = Append(swaps, Swap(r))
          /\ chainBalance' = IF r = "reverted" /\ chainBalance >= gasCost
                               THEN chainBalance - gasCost
                               ELSE chainBalance
    /\ SwapCatch(successCount, deployStatus)
    /\ outcomes' = Append(outcomes, Outcome("swap_failed"))
    /\ UNCHANGED <<deployItems, tokenChecks, balance, amount, gasEstimate, gasCost,
                   successCount, nEstimates, serverVars, clientVars, normVars, extVars>>

\* lines 270-275: any other await throws (the request, the provider): the
\* outer catch reports it and the run ends
AwaitThrows ==
    /\ pc \in {"checkTokens", "getNetwork", "getFirstBalance", "getBalance", "getFeeData"}
    /\ EndRun(Status("error", <<>>, 0, 0))
    /\ outcomes' = IF pc \in {"getBalance", "getFeeData"}
                     THEN Append(outcomes, Outcome("error"))
                     ELSE outcomes
    /\ UNCHANGED <<deployItems, chainBalance, tokenChecks, idx, balance, amount,
                   gasEstimate, gasCost, successCount, nEstimates, swaps,
                   serverVars, clientVars, normVars, extVars>>

DeployNext ==
    \/ StartDeploy
    \/ TokensChecked
    \/ NetworkRead
    \/ FirstBalanceRead
    \/ BalanceRead
    \/ GasEstimated
    \/ GasEstimateFails
    \/ FeeDataRead
    \/ SwapConfirms
    \/ SwapFails
    \/ AwaitThrows

SpecDeploy == DeployInit /\ [][DeployNext]_vars

-----------------------------------------------------------------------------
(* Claims about deployPortfolio *)

UnavailableSymbols ==
    LET bad == SelectSeq(tokenChecks.checks, LAMBDA t : ~t.available)
    IN  [i \in 1..Len(bad) |-> bad[i].symbol]

SomeUnavailable == tokenChecks.set /\ Len(UnavailableSymbols) > 0

\* C6: whenever the availability check reports at least one symbol of the
\* portfolio as unavailable, the run has ended with no gas estimation and no
\* swap submitted, the status names exactly the unavailable symbols, and the
\* deploy loading flag is cleared.
C6_UnavailableAborts ==
    SomeUnavailable =>
        /\ pc = "idle"
        /\ nEstimates = 0
        /\ swaps = <<>>
        /\ deployStatus.kind = "unavailable"
        /\ deployStatus.symbols = UnavailableSymbols
        /\ deployStatus.done = Len(UnavailableSymbols)
        /\ ~deployLoading

\* one of two assets is unavailable, and the check has answered
C6_Witness ==
    /\ Len(deployItems) = 2
    /\ SomeUnavailable
    /\ Len(UnavailableSymbols) = 1
    /\ deployStatus.symbols = <<"Dogecoin">>
    /\ ~deployLoading

AssetFailures == {"gas_failed", "swap_failed"}

InLoop == pc \in {"getBalance", "estimateGas", "getFeeData", "swap"}

\* C7: a failure confined to one asset (the gas estimation throws, the swap
\* reverts or is rejected) never ends the run: the loop goes on to the next
\* asset, which is then the one in hand or the one the next outcome is about;
\* after the last asset the run ends with the summary.
C7_AssetFailureContinues ==
    \A k \in 1..Len(outcomes) :
        outcomes[k].result \in AssetFailures =>
            LET a == outcomes[k].asset
            IN  IF a < Len(AvailableTokens)
                  THEN IF k < Len(outcomes)
                         THEN outcomes[k + 1].asset = a + 1
                         ELSE idx = a + 1 /\ InLoop /\ deployLoading
                  ELSE /\ k = Len(outcomes)
                       /\ pc = "idle"
                       /\ deployStatus.kind \in {"summary", "none_completed"}
                       /\ ~deployLoading

\* a swap fails and a gas estimation fails, and a later asset is still swapped
C7_Witness ==
    /\ Len(outcomes) = 3
    /\ outcomes[1].result = "swap_failed"
    /\ outcomes[2].result = "gas_failed"
    /\ outcomes[3].result = "swapped"
    /\ outcomes[3].asset = 3

-----------------------------------------------------------------------------
(* The two normalization sites on lists that are already normalized *)

\* the integers a list's percentages are drawn from
NormValues ==
    {5 * k : k \in (0 - NegSteps)..(20 + NegSteps)} \cup {1, 33, 34, 37, 38, 99}

RECURSIVE ListsSumming(_, _)
\* the lists of n values that sum to total
ListsSumming(n, total) ==
    IF n = 1
      THEN IF total \in NormValues THEN {<<total>>} ELSE {}
      ELSE UNION {{<<a>> \o s : s \in ListsSumming(n - 1, total - a)} : a \in NormValues}

\* integer percentages that sum to 100
NormLists == UNION {ListsSumming(n, 100) : n \in 1..MaxNormLen}

NonNegative(list) == \A i \in 1..Len(list) : list[i] >= 0

\* the rows of line 228 with the list as their USD values
AsRows(list) == [i \in 1..Len(list) |-> [sym |-> i, balanceUsd |-> list[i]]]

\* the items of line 462 with the list as their percentages
AsItems(list) == [i \in 1..Len(list) |-> [name |-> "Bitcoin", percentage |-> Pts(list[i])]]

PercentagesOf(rows) == [i \in 1..Len(rows) |-> rows[i].percentage]

NormInit ==
    /\ normIn \in NormLists
    /\ normSite = "none"
    /\ normOut = <<>>
    /\ WalletIdle /\ LookupIdle /\ ChatIdle /\ ClientIdle /\ DeployIdle /\ ExtIdle

\* lines 228-236 of the wallet lookup; a USD value is never negative
NormalizeWallet ==
    /\ normSite = "none"
    /\ NonNegative(normIn)
    /\ normSite' = "wallet"
    /\ normOut' = PercentagesOf(WalletNormalize(AsRows(normIn)))
    /\ UNCHANGED <<normIn, serverVars, clientVars, deployVars, extVars>>

\* lines 462-470 of the chat edit; the output is read in half points
NormalizeChat ==
    /\ normSite = "none"
    /\ normSite' = "chat"
    /\ normOut' = PercentagesOf(ChatRescale(AsItems(normIn)))
    /\ UNCHANGED <<normIn, serverVars, clientVars, deployVars, extVars>>

NormNext == NormalizeWallet \/ NormalizeChat

SpecNorm == NormInit /\ [][NormNext]_vars

-----------------------------------------------------------------------------
(* Negative percentages and malformed lookup replies *)

HasNegative(items) == \E i \in 1..Len(items) : items[i].percentage < 0

\* C11: a weight list containing a negative weight is rejected: an AI chat
\* reply that passes the schema and holds a negative percentage is never
\* returned as the new portfolio; the answer is an error, or the request's
\* own portfolio.
C11_NegativeNeverReturned ==
    (chatRes # None /\ ChatPassesSchema /\ HasNegative(aiChat.list.items))
        => \/ chatRes.status # 200
           \/ chatRes.portfolio = chatReq

\* a content that is not empty and is not JSON, or is JSON failing the schema
LookupMalformed == aiLookup.kind # "empty" /\ ~LookupPassesSchema

\* C12: when the AI reply of a personality lookup is not valid JSON or fails
\* the schema, the lookup answers with an empty investments list and the
\* history record holds an empty list: nothing of the reply gets through.
C12_MalformedLookupIsEmpty ==
    (lookupRes # None /\ LookupMalformed)
        => /\ lookupRes.status = 200
           /\ lookupRes.investments = <<>>
           /\ Len(searches) = 1
           /\ searches[1] = <<>>

\* the reply is an object whose investments array holds an item with a
\* percentage that is not a number, and the lookup has answered
C12_Witness ==
    /\ lookupRes # None
    /\ aiLookup.kind = "object"
    /\ aiLookup.list.shape = "array"
    /\ Len(aiLookup.list.items) = 1
    /\ ~ListIsValid(aiLookup.list)
    /\ lookupRes.investments = <<>>
    /\ searches = << <<>> >>

-----------------------------------------------------------------------------
(* The lookup history: tables searches and wallet_searches *)

\* the bodies of the lookup requests: a query the input schema takes, or not
PersonQueries == {[valid |-> TRUE, text |-> "satoshi"], [valid |-> FALSE, text |-> ""]}
AddressQueries == {[valid |-> TRUE, text |-> "0xabc"], [valid |-> FALSE, text |-> "abc"]}

\* what the AI and the explorer answer the lookups of a history with
HistLookupContents ==
    {[kind |-> "text", reply |-> NoReply, list |-> NoList],
     [kind |-> "object", reply |-> NoReply,
      list |-> [shape |-> "array",
                items |-> <<[name |-> "Bitcoin", percentage |-> Pts(50), isNumber |-> TRUE],
                            [name |-> "Ethereum", percentage |-> Pts(50), isNumber |-> TRUE]>>]]}

HistEthAnswers ==
    {[kind |-> "http_error", eth |-> [present |-> FALSE, usd |-> 0], tokens |-> <<>>],
     [kind |-> "api_error", eth |-> [present |-> FALSE, usd |-> 0], tokens |-> <<>>],
     [kind |-> "data", eth |-> [present |-> TRUE, usd |-> 1],
      tokens |-> <<[named |-> TRUE, type |-> "ERC-20", usd |-> 1]>>]}

\* db.insert(table).values(row).returning(): the serial id, and created_at
\* from defaultNow()
Inserted(table, q, list, now) ==
    Append(table, [id |-> Len(table) + 1, query |-> q, list |-> list, createdAt |-> now])

Served(kind, q, status, list) ==
    [kind |-> kind, query |-> q, status |-> status, list |-> list]

RECURSIVE OrdersOf(_)
\* every order of the rows of s
OrdersOf(s) ==
    IF s = <<>> THEN {<<>>}
    ELSE UNION {{<<s[i]>> \o t :
                    t \in OrdersOf([j \in 1..(Len(s) - 1) |->
                                            IF j < i THEN s[j] ELSE s[j + 1]])} :
                i \in 1..Len(s)}

IsDescByCreatedAt(rows) ==
    \A i \in 1..(Len(rows) - 1) : rows[i].createdAt >= rows[i + 1].createdAt

\* the rows in the order they were inserted
InsertionOrder(table) == {table}

\* db.select().from(table).orderBy(desc(createdAt)): every order of all rows
\* that descends by created_at (rows of one instant come in any order)
OrderByCreatedAtDesc(table) == {rows \in OrdersOf(table) : IsDescByCreatedAt(rows)}

HistInit ==
    /\ HistIdle /\ PoolIdle /\ MintIdle /\ UiIdle /\ NftIdle
    /\ WalletIdle /\ LookupIdle /\ ChatIdle /\ ClientIdle /\ DeployIdle /\ NormIdle

\* POST /api/crypto/lookup, served to the end: 400 on a body the input schema
\* refuses, 500 when the completion throws, else the row and the answer
HistCryptoLookup ==
    /\ Len(lookupLog) < MaxLookups
    /\ \E q \in PersonQueries, aiThrows \in BOOLEAN, content \in HistLookupContents,
          now \in {dbClock, dbClock + 1} :
          IF ~q.valid \/ aiThrows
            THEN /\ content = CHOOSE c \in HistLookupContents : TRUE
                 /\ now = dbClock
                 /\ lookupLog' = Append(lookupLog,
                        Served("personality", q.text, IF q.valid THEN 500 ELSE 400, <<>>))
                 /\ UNCHANGED <<dbSearches, dbClock>>
            ELSE /\ dbSearches' = Inserted(dbSearches, q.text, Top5(content), now)
                 /\ dbClock' = now
                 /\ lookupLog' = Append(lookupLog,
                        Served("personality", q.text, 200, Top5(content)))
    /\ histRead' = NoRead
    /\ UNCHANGED <<dbWalletSearches, serverVars, clientVars, deployVars, normVars,
                   poolVars, mintVars, uiVars, nftVars>>

\* POST /api/wallet/lookup, served to the end: 400 on an address the input
\* schema refuses, 502 and 400 from the explorer, else the row and the answer
HistWalletLookup ==
    /\ Len(lookupLog) < MaxLookups
    /\ \E q \in AddressQueries, data \in HistEthAnswers, now \in {dbClock, dbClock + 1} :
          LET res == WalletResponse(data)
          IN  IF ~q.valid \/ res.status # 200
                THEN /\ ~q.valid => data = CHOOSE d \in HistEthAnswers : TRUE
                     /\ now = dbClock
                     /\ lookupLog' = Append(lookupLog,
                            Served("wallet", q.text,
                                   IF q.valid THEN res.status ELSE 400, <<>>))
                     /\ UNCHANGED <<dbWalletSearches, dbClock>>
                ELSE /\ dbWalletSearches' = Inserted(dbWalletSearches, q.text, res.tokens, now)
                     /\ dbClock' = now
                     /\ lookupLog' = Append(lookupLog,
                            Served("wallet", q.text, 200, res.tokens))
    /\ histRead' = NoRead
    /\ UNCHANGED <<dbSearches, serverVars, clientVars, deployVars, normVars,
                   poolVars, mintVars, uiVars, nftVars>>

\* GET /api/crypto/history
ReadCryptoHistory ==
    /\ \E rows \in OrderByCreatedAtDesc(dbSearches) :
          histRead' = [set |-> TRUE, table |-> "searches", at |-> Len(dbSearches),
                       rows |-> rows]
    /\ UNCHANGED <<dbSearches, dbWalletSearches, dbClock, lookupLog,
                   serverVars, clientVars, deployVars, normVars,
                   poolVars, mintVars, uiVars, nftVars>>

\* GET /api/wallet/history
ReadWalletHistory ==
    /\ \E rows \in OrderByCreatedAtDesc(dbWalletSearches) :
          histRead' = [set |-> TRUE, table |-> "wallet_searches",
                       at |-> Len(dbWalletSearches), rows |-> rows]
    /\ UNCHANGED <<dbSearches, dbWalletSearches, dbClock, lookupLog,
                   serverVars, clientVars, deployVars, normVars,
                   poolVars, mintVars, uiVars, nftVars>>

HistNext ==
    \/ HistCryptoLookup
    \/ HistWalletLookup
    \/ ReadCryptoHistory
    \/ ReadWalletHistory

SpecHistory == HistInit /\ [][HistNext]_vars

\* the lookups of one kind that answered 200, in the order they were served
Answered200(kind) == SelectSeq(lookupLog, LAMBDA r : r.kind = kind /\ r.status = 200)

\* the table holds exactly one row per lookup that answered 200, with its
\* query and its list, and nothing else
OneRowPer200(table, kind) ==
    /\ Len(table) = Len(Answered200(kind))
    /\ \A i \in 1..Len(table) :
          /\ table[i].query = Answered200(kind)[i].query
          /\ table[i].list = Answered200(kind)[i].list

TableOf(name) == IF name = "searches" THEN dbSearches ELSE dbWalletSearches

\* the read returned all rows of its table, each once, newest first
ReadIsAllNewestFirst ==
    histRead.set =>
        /\ Len(histRead.rows) = Len(TableOf(histRead.table))
        /\ {histRead.rows[i] : i \in 1..Len(histRead.rows)}
              = {TableOf(histRead.table)[i] : i \in 1..Len(TableOf(histRead.table))}
        /\ IsDescByCreatedAt(histRead.rows)

\* a step leaves every row that exists as it is
RowsKept(table, tableNext) ==
    /\ Len(tableNext) >= Len(table)
    /\ SubSeq(tableNext, 1, Len(table)) = table

\* C13: the lookup history is an append-only log read most-recent-first:
\* every lookup that answered 200 appended exactly one row with its query and
\* its list, lookups that answered 400, 500 or 502 appended nothing, no step
\* changes or removes a row, and a history read returns all rows in
\* descending order of creation time.
C13_HistoryAppendOnly ==
    /\ [](/\ OneRowPer200(dbSearches, "personality")
          /\ OneRowPer200(dbWalletSearches, "wallet")
          /\ ReadIsAllNewestFirst)
    /\ [][/\ RowsKept(dbSearches, dbSearches')
          /\ RowsKept(dbWalletSearches, dbWalletSearches')]_vars

\* two wallet lookups answered 200 at different instants, one answered 502,
\* and the history was read
C13_Witness ==
    /\ histRead.set
    /\ histRead.table = "wallet_searches"
    /\ Len(histRead.rows) = 2
    /\ histRead.rows[1].createdAt > histRead.rows[2].createdAt
    /\ histRead.rows[1].id = 2
    /\ \E i \in 1..Len(lookupLog) : lookupLog[i].status = 502

-----------------------------------------------------------------------------
(* The empty portfolio *)

\* C14: an empty item list always means no portfolio: the client never holds
\* a present portfolio with zero items, and a portfolio that is absent (as
\* after a chat edit that returned an empty list) has no persisted copy.
C14_EmptyMeansNoPortfolio ==
    /\ portfolio # None => Len(portfolio.items) >= 1
    /\ portfolio = None => stored = None

-----------------------------------------------------------------------------
(* The summary of a whole-portfolio run *)

\* the assets of the run for which exactInputSingle was called
AttemptedCount == Len(swaps)

\* C15: the final status of a whole-portfolio deployment reports
\* successCount / attemptedCount, attemptedCount being the number of assets
\* for which a swap was submitted in the run, and successCount is at most
\* attemptedCount.
C15_SummaryCountsAttempts ==
    (pc = "idle" /\ deployStatus.kind = "summary")
        => /\ deployStatus.done = successCount
           /\ deployStatus.of = AttemptedCount
           /\ successCount <= AttemptedCount

-----------------------------------------------------------------------------
(* deployToPool: the deployment into one pool *)

FeeTiersAscending == <<100, 500, 3000, 10000>>

\* line 367
FeeTiers == <<3000, 500, 10000, 100>>

\* the pools of the dialog
PoolIds == {1, 2}

\* the state of a whole-portfolio run, the chain's balance apart
deployRunVars == <<deployItems, pc, deployLoading, deployStatus, tokenChecks, idx, balance,
                   amount, gasEstimate, gasCost, successCount, nEstimates, swaps, outcomes>>

\* what a step of deployToPool leaves alone, the chain's balance apart
poolRest == <<serverVars, clientVars, normVars, histVars, mintVars, uiVars, nftVars, deployRunVars>>

\* (b * BigInt(allocationPct)) / BigInt(100)
PoolShare(b) == TruncDiv(b * poolPct, Pts(100))

\* the run returns: its toast, and setDeployingPoolId(null)
PoolFinish(toast) ==
    /\ poolToast' = toast
    /\ deployingPoolId' = 0
    /\ poolPc' = "idle"

\* the for loop after the tier in hand: the next tier's estimation (the
\* preliminary amount is computed again from the same balance), or, past the
\* last tier, throw lastErr || new Error("All fee tiers failed")
PoolNextTier ==
    IF poolTier < Len(FeeTiers)
      THEN /\ poolTier' = poolTier + 1
           /\ poolAmount' = PoolShare(poolBalance)
           /\ poolPc' = "estimateGas"
           /\ UNCHANGED <<deployingPoolId, poolToast>>
      ELSE /\ PoolFinish("failed")
           /\ UNCHANGED <<poolTier, poolAmount>>

NeverRejection(r) == FALSE

\* line 426: err?.code === "ACTION_REJECTED" || err?.code === 4001
IsRejection(r) == r = "rejected"

PoolSwap(r) == [tier |-> poolTier, fee |-> FeeTiers[poolTier], amountIn |-> poolAmount,
                balance |-> poolBalance, result |-> r]

\* a pool's Deploy button (disabled while deployingPoolId is not null), lines
\* 298-343: a portfolio item matches the pool and its other symbol is not ETH
StartPoolDeploy ==
    /\ deployingPoolId = 0
    /\ Len(deployItems) > 0
    /\ \E id \in PoolIds, i \in 1..Len(deployItems) :
          /\ deployingPoolId' = id
          /\ poolPct' = deployItems[i].percentage
    /\ poolPc' = "checkToken"
    /\ poolTier' = 0 /\ poolBalance' = 0 /\ poolAmount' = 0 /\ poolGas' = 0
    /\ poolSwaps' = <<>>
    /\ poolToast' = "none"
    /\ UNCHANGED <<chainBalance, poolRest>>

\* lines 343-351
PoolTokenChecked ==
    /\ poolPc = "checkToken"
    /\ \E available \in BOOLEAN :
          IF available
            THEN poolPc' = "getNetwork" /\ UNCHANGED <<deployingPoolId, poolToast>>
            ELSE PoolFinish("token_not_found")
    /\ UNCHANGED <<poolTier, poolPct, poolBalance, poolAmount, poolGas, poolSwaps,
                   chainBalance, poolRest>>

\* lines 353-361
PoolNetworkRead ==
    /\ poolPc = "getNetwork"
    /\ \E sepolia \in BOOLEAN :
          IF sepolia
            THEN poolPc' = "getBalance" /\ UNCHANGED <<deployingPoolId, poolToast>>
            ELSE PoolFinish("wrong_network")
    /\ UNCHANGED <<poolTier, poolPct, poolBalance, poolAmount, poolGas, poolSwaps,
                   chainBalance, poolRest>>

\* lines 363-391: the signer, the balance, and the first tier up to its
\* estimation; BigInt throws on a percentage that is not whole, in every tier
PoolBalanceRead ==
    /\ poolPc = "getBalance"
    /\ poolBalance' = chainBalance
    /\ IF ~IsWhole(poolPct)
         THEN PoolFinish("failed") /\ poolTier' = Len(FeeTiers) /\ UNCHANGED poolAmount
         ELSE IF TruncDiv(chainBalance * poolPct, Pts(100)) = 0
                THEN PoolFinish("too_small") /\ poolTier' = 1 /\ UNCHANGED poolAmount
                ELSE /\ poolTier' = 1
                     /\ poolAmount' = TruncDiv(chainBalance * poolPct, Pts(100))
                     /\ poolPc' = "estimateGas"
                     /\ UNCHANGED <<deployingPoolId, poolToast>>
    /\ UNCHANGED <<poolPct, poolGas, poolSwaps, chainBalance, poolRest>>

\* line 395: the estimate arrives
PoolGasEstimated ==
    /\ poolPc = "estimateGas"
    /\ \E g \in GasEstimates : poolGas' = g
    /\ poolPc' = "getFeeData"
    /\ UNCHANGED <<deployingPoolId, poolTier, poolPct, poolBalance, poolAmount, poolSwaps,
                   poolToast, chainBalance, poolRest>>

\* lines 394-398: estimateGas throws, and the loop continues
PoolGasEstimateFails ==
    /\ poolPc = "estimateGas"
    /\ PoolNextTier
    /\ UNCHANGED <<poolPct, poolBalance, poolGas, poolSwaps, chainBalance, poolRest>>

\* lines 400-417: the gas cost and the final amount
PoolFeeDataRead ==
    /\ poolPc = "getFeeData"
    /\ \E price \in GasPrices :
          LET cost == GasCost(poolGas, price)
          IN  IF cost >= poolBalance
                THEN PoolFinish("no_gas") /\ UNCHANGED poolAmount
                ELSE IF PoolShare(poolBalance - cost) = 0
                       THEN PoolFinish("too_small") /\ UNCHANGED poolAmount
                       ELSE /\ poolAmount' = PoolShare(poolBalance - cost)
                            /\ poolPc' = "swap"
                            /\ UNCHANGED <<deployingPoolId, poolToast>>
    /\ UNCHANGED <<poolTier, poolPct, poolBalance, poolGas, poolSwaps, chainBalance, poolRest>>

\* lines 400, 424-427: getFeeData throws; the tier's catch keeps the error
\* and the loop goes on
PoolFeeDataThrows ==
    /\ poolPc = "getFeeData"
    /\ PoolNextTier
    /\ UNCHANGED <<poolPct, poolBalance, poolGas, poolSwaps, chainBalance, poolRest>>

\* lines 419-434: the transaction is sent and confirms
PoolSwapConfirms ==
    /\ poolPc = "swap"
    /\ poolSwaps' = Append(poolSwaps, PoolSwap("confirmed"))
    /\ chainBalance' = IF chainBalance >= poolAmount THEN chainBalance - poolAmount ELSE 0
    /\ PoolFinish("deployed")
    /\ UNCHANGED <<poolTier, poolPct, poolBalance, poolAmount, poolGas, poolRest>>

\* lines 419-427, 436-447: the user rejects the transaction (the error is
\* thrown on, to the outer catch), or it fails otherwise (the next tier)
PoolSwapFails ==
    /\ poolPc = "swap"
    /\ \E r \in {"rejected", "reverted"} :
          /\ poolSwaps' = Append(poolSwaps, PoolSwap(r))
          /\ IF IsRejection(r)
               THEN PoolFinish("failed") /\ UNCHANGED <<poolTier, poolAmount>>
               ELSE PoolNextTier
    /\ UNCHANGED <<poolPct, poolBalance, poolGas, chainBalance, poolRest>>

\* lines 438-447: an await before the loop throws: the outer catch, finally
PoolAwaitThrows ==
    /\ poolPc \in {"checkToken", "getNetwork", "getBalance"}
    /\ PoolFinish("failed")
    /\ UNCHANGED <<poolTier, poolPct, poolBalance, poolAmount, poolGas, poolSwaps,
                   chainBalance, poolRest>>

PoolNext ==
    \/ StartPoolDeploy
    \/ PoolTokenChecked
    \/ PoolNetworkRead
    \/ PoolBalanceRead
    \/ PoolGasEstimated
    \/ PoolGasEstimateFails
    \/ PoolFeeDataRead
    \/ PoolFeeDataThrows
    \/ PoolSwapConfirms
    \/ PoolSwapFails
    \/ PoolAwaitThrows

\* a page with a portfolio and a connected wallet
PoolInit == DeployInit

SpecPool == PoolInit /\ [][PoolNext]_vars

-----------------------------------------------------------------------------
(* The two deployment actions of one page, on one wallet *)

\* the portfolios and balances the two actions are run together on
FundsPortfolios ==
    {<<[name |-> "Bitcoin", percentage |-> Pts(100)]>>,
     <<[name |-> "Bitcoin", percentage |-> Pts(50)],
       [name |-> "Dogecoin", percentage |-> Pts(50)]>>}

FundsBalances == {3, MaxBalance}

FundsInit ==
    /\ DeployInit
    /\ deployItems \in FundsPortfolios
    /\ chainBalance \in FundsBalances

\* one whole-portfolio run and one pool deployment of the page, interleaved:
\* each button is pressed once
FundsNext ==
    \/ StartDeploy /\ deployStatus = NoStatus
    \/ TokensChecked
    \/ NetworkRead
    \/ FirstBalanceRead
    \/ BalanceRead
    \/ GasEstimated
    \/ GasEstimateFails
    \/ FeeDataRead
    \/ SwapConfirms
    \/ SwapFails
    \/ AwaitThrows
    \/ StartPoolDeploy /\ poolToast = "none"
    \/ PoolTokenChecked
    \/ PoolNetworkRead
    \/ PoolBalanceRead
    \/ PoolGasEstimated
    \/ PoolGasEstimateFails
    \/ PoolFeeDataRead
    \/ PoolFeeDataThrows
    \/ PoolSwapConfirms
    \/ PoolSwapFails
    \/ PoolAwaitThrows

SpecFunds == FundsInit /\ [][FundsNext]_vars

\* the awaits of deployToPool that read the balance or hold a swap
PoolTouchesFunds == poolPc \in {"getBalance", "estimateGas", "getFeeData", "swap"}

\* every swap the run has submitted is settled and belongs to an asset before
\* the one in hand, or to the one in hand once the run is over
SwapsSettledInOrder ==
    \A k \in 1..Len(swaps) :
        \/ swaps[k].asset < idx
        \/ swaps[k].asset = idx /\ pc \in {"idle", "getBalance"} /\ k = Len(swaps)

\* C20: at no time are two swap transactions of one client in flight
\* together: in a whole-portfolio run the steps of the next asset start only
\* after the swap of the asset before has confirmed or failed, and while a
\* run is in progress no pool deployment reads the balance or submits a swap.
C20_OneSwapAtATime ==
    /\ ~(pc = "swap" /\ poolPc = "swap")
    /\ SwapsSettledInOrder
    /\ pc # "idle" => ~PoolTouchesFunds

-----------------------------------------------------------------------------
(* The NFT contract (contracts/DefiBuddyNFT.sol) *)

\* msg.sender is an account: never the zero address
Senders == {1, 2}

\* the metadata URLs a mint is called with
URIs == {"u1", "u2"}

\* the operators a sender sets an approval for
Operators(sender) == Senders \ {sender}

NextIdStuck(n) == n

\* _nextTokenId++ leaves the counter one higher
NextId(n) == n + 1

\* what a call of the contract leaves alone
nftRest == <<serverVars, clientVars, deployVars, normVars, histVars, poolVars, mintVars,
             uiVars>>

\* _isApprovedOrOwner
IsApprovedOrOwner(spender, tokenId) ==
    LET owner == owners[tokenId]
    IN  \/ spender = owner
        \/ tokenApprovals[tokenId] = spender
        \/ <<owner, spender>> \in operatorApprovals

\* mint(to, uri): no require, the zero address included
NftMint ==
    /\ Len(returned) < MaxMints
    /\ nextTokenId \in TokenIds
    /\ \E to \in Addresses, uri \in URIs :
          LET tokenId == nextTokenId
          IN  /\ nextTokenId' = NextId(nextTokenId)
              /\ balances' = [balances EXCEPT ![to] = @ + 1]
              /\ owners' = [owners EXCEPT ![tokenId] = to]
              /\ tokenURIs' = [tokenURIs EXCEPT ![tokenId] = uri]
              /\ returned' = Append(returned, tokenId)
    /\ nftCall' = NoCall
    /\ UNCHANGED <<tokenApprovals, operatorApprovals, nftRest>>

\* approve(to, tokenId), when neither require reverts
NftApprove ==
    /\ \E sender \in Senders, to \in Addresses, tokenId \in TokenIds :
          LET owner == owners[tokenId]
          IN  /\ owner # 0
              /\ sender = owner \/ <<owner, sender>> \in operatorApprovals
              /\ tokenApprovals' = [tokenApprovals EXCEPT ![tokenId] = to]
    /\ nftCall' = NoCall
    /\ UNCHANGED <<nextTokenId, owners, balances, tokenURIs, operatorApprovals, returned,
                   nftRest>>

\* setApprovalForAll(operator, approved)
NftSetApprovalForAll ==
    /\ \E sender \in Senders, approved \in BOOLEAN :
          \E operator \in Operators(sender) :
              operatorApprovals' = IF approved
                                     THEN operatorApprovals \cup {<<sender, operator>>}
                                     ELSE operatorApprovals \ {<<sender, operator>>}
    /\ nftCall' = NoCall
    /\ UNCHANGED <<nextTokenId, owners, balances, tokenURIs, tokenApprovals, returned,
                   nftRest>>

\* the two balance updates without the decrement
MovedNoDecrement(bal, from, to) == [bal EXCEPT ![to] = @ + 1]

\* lines 65-66: _balances[from]--; _balances[to]++
Moved(bal, from, to) == [[bal EXCEPT ![from] = @ - 1] EXCEPT ![to] = @ + 1]

\* the first require always passing
AnyCaller(sender, tokenId) == TRUE

\* line 62: require(_isApprovedOrOwner(msg.sender, tokenId))
CallerAllowed(sender, tokenId) == IsApprovedOrOwner(sender, tokenId)

\* lines 62-65: the three requires in order, then the checked decrement
TransferResult(sender, from, to, tokenId) ==
    IF ~CallerAllowed(sender, tokenId) THEN "not_allowed"
    ELSE IF from # owners[tokenId] THEN "not_owner"
    ELSE IF to = 0 THEN "to_zero"
    ELSE IF balances[from] = 0 THEN "underflow"
    ELSE "ok"

\* transferFrom(from, to, tokenId), when no require reverts and the checked
\* decrement does not underflow
NftTransferFrom ==
    /\ \E sender \in Senders, from \in Addresses, to \in Addresses, tokenId \in TokenIds :
          /\ TransferResult(sender, from, to, tokenId) = "ok"
          /\ tokenApprovals' = [tokenApprovals EXCEPT ![tokenId] = 0]
          /\ balances' = Moved(balances, from, to)
          /\ owners' = [owners EXCEPT ![tokenId] = to]
          /\ nftCall' = [sender |-> sender, from |-> from, to |-> to, tokenId |-> tokenId,
                         result |-> "ok"]
    /\ UNCHANGED <<nextTokenId, tokenURIs, operatorApprovals, returned, nftRest>>

\* the ways a transferFrom call can revert in the state in hand
Reverts ==
    {TransferResult(sender, from, to, tokenId) :
        sender \in Senders, from \in Addresses, to \in Addresses, tokenId \in TokenIds}
            \ {"ok"}

\* transferFrom(from, to, tokenId) reverting: the transaction changes nothing
NftTransferReverts ==
    /\ \E r \in Reverts : nftCall' = [NoCall EXCEPT !.result = r]
    /\ UNCHANGED <<nextTokenId, owners, balances, tokenURIs, tokenApprovals,
                   operatorApprovals, returned, nftRest>>

NftInit ==
    /\ NftIdle
    /\ HistIdle /\ PoolIdle /\ MintIdle /\ UiIdle
    /\ WalletIdle /\ LookupIdle /\ ChatIdle /\ ClientIdle /\ DeployIdle /\ NormIdle

NftNext ==
    \/ NftMint
    \/ NftApprove
    \/ NftSetApprovalForAll
    \/ NftTransferFrom
    \/ NftTransferReverts

SpecNft == NftInit /\ [][NftNext]_vars

\* the tokens mint has returned so far
Minted == {returned[i] : i \in 1..Len(returned)}

\* a step in which mint returns
MintReturns == Len(returned') = Len(returned) + 1

\* C18: the ids mint returns are 0, 1, 2, ... in call order, so that no id
\* is returned twice, and a mint changes neither the owner nor the tokenURI
\* of a token an earlier mint returned.
C18_MintCreatesDistinctTokens ==
    /\ [](\A i \in 1..Len(returned) : returned[i] = i - 1)
    /\ [][MintReturns =>
            \A t \in Minted : owners'[t] = owners[t] /\ tokenURIs'[t] = tokenURIs[t]]_vars

\* every mint of the bound made, the first token since transferred from
\* account 1 to account 2
C18_Witness ==
    /\ Len(returned) = MaxMints
    /\ nftCall.result = "ok" /\ nftCall.tokenId = 0 /\ nftCall.from = 1
    /\ owners[0] = 2 /\ owners[1] = 1
    /\ tokenURIs[0] = "u1" /\ tokenURIs[1] = "u2"
    /\ balances[2] >= 1 /\ balances[1] >= 1

-----------------------------------------------------------------------------
(* mintReportAsNFT: the mint of the report, on one page *)

\* what a step of mintReportAsNFT leaves alone
mintRest == <<serverVars, clientVars, deployVars, normVars, histVars, poolVars, uiVars,
              nftVars>>

AlwaysDeploys(contractAddress) == TRUE

\* if (!contractAddress), line 604
NeedsDeployment(contractAddress) == contractAddress = 0

\* the address of the contract a deployment creates: a new one each time
NewContract == nftDeployments + 1

MintFinishKeepsFlag(result, address) ==
    /\ mintingNft' = mintingNft
    /\ mintPc' = "idle"
    /\ mintRuns' = Append(mintRuns, [result |-> result, contract |-> address])

\* the run is over: setMintingNft(false), lines 595 and 642-644
MintFinish(result, address) ==
    /\ mintingNft' = FALSE
    /\ mintPc' = "idle"
    /\ mintRuns' = Append(mintRuns, [result |-> result, contract |-> address])

\* the mint button (disabled while mintingNft), lines 540-547
StartMint ==
    /\ ~mintingNft
    /\ Len(mintRuns) < MaxMintRuns
    /\ mintingNft' = TRUE
    /\ mintPc' = "postMetadata"
    /\ mintAddress' = 0
    /\ UNCHANGED <<nftContract, nftDeployments, mintRuns, mintRest>>

\* lines 583-587: POST /api/nft/metadata answers
MintMetadataSaved ==
    /\ mintPc = "postMetadata"
    /\ mintPc' = "getNetwork"
    /\ UNCHANGED <<mintingNft, nftContract, nftDeployments, mintAddress, mintRuns, mintRest>>

\* lines 589-597
MintNetworkRead ==
    /\ mintPc = "getNetwork"
    /\ \E sepolia \in BOOLEAN :
          IF sepolia
            THEN mintPc' = "getSigner" /\ UNCHANGED <<mintingNft, mintRuns>>
            ELSE MintFinish("wrong_network", mintAddress)
    /\ UNCHANGED <<nftContract, nftDeployments, mintAddress, mintRest>>

\* lines 599-606 and 612-617: the signer, then the stored address is read;
\* with one, the mint transaction is sent to it
MintSignerRead ==
    /\ mintPc = "getSigner"
    /\ LET contractAddress == nftContract
       IN  IF NeedsDeployment(contractAddress)
             THEN mintPc' = "deploy" /\ UNCHANGED mintAddress
             ELSE mintPc' = "mint" /\ mintAddress' = contractAddress
    /\ UNCHANGED <<mintingNft, nftContract, nftDeployments, mintRuns, mintRest>>

\* lines 606-617: the contract is deployed, its address stored, and the mint
\* transaction sent to it
MintContractDeployed ==
    /\ mintPc = "deploy"
    /\ nftDeployments' = nftDeployments + 1
    /\ nftContract' = NewContract
    /\ mintAddress' = NewContract
    /\ mintPc' = "mint"
    /\ UNCHANGED <<mintingNft, mintRuns, mintRest>>

\* lines 606-608, 637-644: deploy() or waitForDeployment() throws, the
\* deployment transaction sent or not; nothing is stored
MintDeployThrows ==
    /\ mintPc = "deploy"
    /\ \E sent \in BOOLEAN :
          nftDeployments' = IF sent THEN nftDeployments + 1 ELSE nftDeployments
    /\ MintFinish("deploy_failed", mintAddress)
    /\ UNCHANGED <<nftContract, mintAddress, mintRest>>

\* lines 617-636: the mint transaction confirms
MintConfirms ==
    /\ mintPc = "mint"
    /\ MintFinish("minted", mintAddress)
    /\ UNCHANGED <<nftContract, nftDeployments, mintAddress, mintRest>>

\* lines 617-619, 637-644: the mint transaction is rejected or fails
MintTxFails ==
    /\ mintPc = "mint"
    /\ MintFinish("mint_failed", mintAddress)
    /\ UNCHANGED <<nftContract, nftDeployments, mintAddress, mintRest>>

\* lines 583-599, 637-644: an await before the stored address is read throws
MintAwaitThrows ==
    /\ mintPc \in {"postMetadata", "getNetwork", "getSigner"}
    /\ MintFinish("failed", mintAddress)
    /\ UNCHANGED <<nftContract, nftDeployments, mintAddress, mintRest>>

MintInit ==
    /\ MintIdle
    /\ HistIdle /\ PoolIdle /\ UiIdle /\ NftIdle
    /\ WalletIdle /\ LookupIdle /\ ChatIdle /\ ClientIdle /\ DeployIdle /\ NormIdle

MintNext ==
    \/ StartMint
    \/ MintMetadataSaved
    \/ MintNetworkRead
    \/ MintSignerRead
    \/ MintContractDeployed
    \/ MintDeployThrows
    \/ MintConfirms
    \/ MintTxFails
    \/ MintAwaitThrows

SpecMint == MintInit /\ [][MintNext]_vars

\* C19: once a contract address is stored, no step of a mint run deploys a
\* contract or stores another address, and the mint transaction of every run
\* goes to the stored address.
C19_ContractDeployedOnce ==
    /\ [][nftContract # 0 =>
            nftContract' = nftContract /\ nftDeployments' = nftDeployments]_vars
    /\ [](mintPc = "mint" => nftContract # 0 /\ mintAddress = nftContract)

\* a run whose mint transaction failed, then a run that minted at the same
\* address with no deployment of its own
C19_Witness ==
    /\ Len(mintRuns) >= 2
    /\ mintRuns[1].result = "mint_failed"
    /\ mintRuns[2].result = "minted"
    /\ mintRuns[2].contract = mintRuns[1].contract
    /\ mintRuns[2].contract = nftContract
    /\ nftDeployments = 1

-----------------------------------------------------------------------------
(* The events of the page that start a lookup: the form, the two history    *)
(* cards and the connect button                                            *)

Kinds == {"personality", "wallet"}

\* what an event of the lookups leaves alone
uiRest == <<serverVars, clientVars, deployVars, normVars, histVars, poolVars, nftVars>>

\* line 647
UiPending == lookupPending \/ walletPending

\* the requests the two mutations observe
Observed == (IF lookupPending THEN 1 ELSE 0) + (IF walletPending THEN 1 ELSE 0)

\* reset() on the other mutation and mutate() on this one: neither aborts
\* the request of a pending mutation, which stays in flight unobserved
Mutate(kind) ==
    /\ untracked + Observed <= MaxUntracked
    /\ untracked' = untracked + Observed
    /\ lookupPending' = (kind = "personality")
    /\ walletPending' = (kind = "wallet")

\* a request settles: onSuccess invalidates the history query of its kind
Invalidate(kind, ok) ==
    hasHistory' = IF ok THEN hasHistory \cup {kind} ELSE hasHistory

\* handleSubmit, lines 650-666; the input and the button are disabled while
\* isPending, lines 1087-1090
HandleSubmit ==
    /\ ~UiPending
    /\ \E kind \in Kinds : Mutate(kind)
    /\ UNCHANGED <<isConnecting, hasHistory, mintVars, uiRest>>

\* the onClick of an item of a history card, lines 1578-1583 and 1615-1620:
\* the cards are rendered whenever their query has rows
HistoryItemClick ==
    /\ \E kind \in hasHistory : Mutate(kind)
    /\ UNCHANGED <<isConnecting, hasHistory, mintVars, uiRest>>

\* connectWallet up to its await, lines 506-517; the button is disabled
\* while isConnecting or isPending, lines 690-691
ConnectWallet ==
    /\ ~isConnecting /\ ~UiPending
    /\ isConnecting' = TRUE
    /\ UNCHANGED <<lookupPending, walletPending, untracked, hasHistory, mintVars, uiRest>>

\* lines 518-526, 535-537: eth_requestAccounts answers with an account
ConnectAccounts ==
    /\ isConnecting
    /\ Mutate("wallet")
    /\ isConnecting' = FALSE
    /\ UNCHANGED <<hasHistory, mintVars, uiRest>>

\* lines 518-519, 528-537: it answers with no account, or throws
ConnectFails ==
    /\ isConnecting
    /\ isConnecting' = FALSE
    /\ UNCHANGED <<lookupPending, walletPending, untracked, hasHistory, mintVars, uiRest>>

\* the request a mutation observes settles, lines 458-476
LookupSettles ==
    /\ \E kind \in Kinds, ok \in BOOLEAN :
          /\ IF kind = "personality"
               THEN lookupPending /\ lookupPending' = FALSE /\ UNCHANGED walletPending
               ELSE walletPending /\ walletPending' = FALSE /\ UNCHANGED lookupPending
          /\ Invalidate(kind, ok)
    /\ UNCHANGED <<isConnecting, untracked, mintVars, uiRest>>

\* a request no mutation observes settles
UntrackedSettles ==
    /\ untracked > 0
    /\ untracked' = untracked - 1
    /\ \E kind \in Kinds, ok \in BOOLEAN : Invalidate(kind, ok)
    /\ UNCHANGED <<isConnecting, lookupPending, walletPending, mintVars, uiRest>>

\* the page as it loads: the history cards show what the server holds
UiInit ==
    /\ isConnecting = FALSE
    /\ lookupPending = FALSE /\ walletPending = FALSE
    /\ untracked = 0
    /\ hasHistory \in SUBSET Kinds
    /\ MintIdle /\ HistIdle /\ PoolIdle /\ NftIdle
    /\ WalletIdle /\ LookupIdle /\ ChatIdle /\ ClientIdle /\ DeployIdle /\ NormIdle

UiNext ==
    \/ HandleSubmit
    \/ HistoryItemClick
    \/ ConnectWallet
    \/ ConnectAccounts
    \/ ConnectFails
    \/ LookupSettles
    \/ UntrackedSettles
    \/ MintNext

SpecUi == UiInit /\ [][UiNext]_vars

\* the lookup requests in flight
LookupsInFlight == Observed + untracked

\* C16: at any time at most one lookup request is in flight, and a chat
\* request, a pool deployment or a mint in flight keeps its action disabled
\* (chatLoading, deployingPoolId, mintingNft), so that no second one starts.
C16_OneRequestPerAction ==
    /\ LookupsInFlight <= 1
    /\ chatCall # None => chatLoading
    /\ poolPc # "idle" => deployingPoolId # 0
    /\ mintPc # "idle" => mintingNft

-----------------------------------------------------------------------------
(* Every action of the page that sets a loading flag, with each external    *)
(* call answering in the end                                               *)

\* no whole-portfolio deployment has been started since the page loaded
DeployFresh == pc = "idle" /\ deployStatus = NoStatus

\* a session uses one kind of action: an action starts only while what the
\* other kinds write is as the page loaded it
Quiet(kind) ==
    /\ kind # "deploy" => DeployFresh
    /\ kind # "pool" => PoolIdle
    /\ kind # "chat" => ClientIdle
    /\ kind # "connect" => UiIdle
    /\ kind # "mint" => MintIdle

\* the steps in which an await of a run answers or throws
DeployReturns ==
    \/ TokensChecked
    \/ NetworkRead
    \/ FirstBalanceRead
    \/ BalanceRead
    \/ GasEstimated
    \/ GasEstimateFails
    \/ FeeDataRead
    \/ SwapConfirms
    \/ SwapFails
    \/ AwaitThrows

PoolReturns ==
    \/ PoolTokenChecked
    \/ PoolNetworkRead
    \/ PoolBalanceRead
    \/ PoolGasEstimated
    \/ PoolGasEstimateFails
    \/ PoolFeeDataRead
    \/ PoolFeeDataThrows
    \/ PoolSwapConfirms
    \/ PoolSwapFails
    \/ PoolAwaitThrows

MintAnswers ==
    \/ MintMetadataSaved
    \/ MintNetworkRead
    \/ MintSignerRead
    \/ MintContractDeployed
    \/ MintDeployThrows
    \/ MintConfirms
    \/ MintTxFails
    \/ MintAwaitThrows

ChatReturns == ChatSettles \/ ChatFails

ConnectReturns == ConnectAccounts \/ ConnectFails

LiveInit ==
    /\ FundsInit
    /\ Len(deployItems) = 1
    /\ chainBalance = 3

LiveNext ==
    \/ StartDeploy /\ Quiet("deploy")
    \/ StartPoolDeploy /\ Quiet("pool")
    \/ SendChat /\ Quiet("chat")
    \/ ConnectWallet /\ Quiet("connect")
    \/ StartMint /\ Quiet("mint")
    \/ DeployReturns
    \/ PoolReturns
    \/ MintAnswers
    \/ ChatReturns
    \/ ConnectReturns
    \/ LookupSettles

\* each external call eventually returns or throws
SpecLive ==
    /\ LiveInit
    /\ [][LiveNext]_vars
    /\ WF_vars(DeployReturns)
    /\ WF_vars(PoolReturns)
    /\ WF_vars(MintAnswers)
    /\ WF_vars(ChatReturns)
    /\ WF_vars(ConnectReturns)

\* C17: every started chat send, whole-portfolio deployment, pool
\* deployment, wallet connect and mint eventually clears the loading flag it
\* set.
C17_LoadingFlagsClear ==
    /\ chatLoading ~> ~chatLoading
    /\ deployLoading ~> ~deployLoading
    /\ (deployingPoolId # 0) ~> (deployingPoolId = 0)
    /\ isConnecting ~> ~isConnecting
    /\ mintingNft ~> ~mintingNft

\* a pool deployment whose swap the user rejected is over, the flag cleared
C17_Witness ==
    /\ deployingPoolId = 0 /\ poolPc = "idle"
    /\ poolToast = "failed"
    /\ Len(poolSwaps) > 0
    /\ poolSwaps[Len(poolSwaps)].result = "rejected"

-----------------------------------------------------------------------------
(* Claims about the writes of the portfolio *)

\* a step in which a chat request ends with a 200 answer
ChatWrites == chatLoading /\ ~chatLoading' /\ chatOver' \in {"sent", "other"}

\* C21: a chat reply that arrives with a 200 answer always writes the
\* portfolio, whatever the portfolio has become while the request was
\* pending: the new item list is the reply's, computed from the items that
\* were sent (an empty one clears the portfolio), and nothing of the item
\* list held at arrival is kept.
C21_LastWriteWins ==
    [][ChatWrites =>
         \E content \in PageChatContents :
            LET res == ChatResponse(chatCall.portfolio, content)
            IN  /\ res.status = 200
                /\ ItemsOf(portfolio') = res.portfolio
                /\ stored' = portfolio']_vars

\* a reply has just replaced a portfolio that was cloned while the request
\* was pending: the source is the clone's, the items are not
C21_Witness ==
    /\ chatOver = "other"
    /\ ~chatLoading
    /\ portfolio # None
    /\ portfolio.source = "wallet"
    /\ walletMutation.hasData
    /\ Len(portfolio.items) # Len(walletMutation.data)

-----------------------------------------------------------------------------
(* Claims about the amounts of deployPortfolio *)

\* the gas prices getFeeData || the default can give
EffectivePrices == {IF p = 0 THEN DefaultGasPrice ELSE p : p \in GasPrices}

\* the assets the run looked at: a balance read that got to an outcome
Halts == {k \in 1..Len(outcomes) : outcomes[k].result = "halted"}

\* C22: the gas cost of an asset is estimate * gasPrice * 120 / 100; when it
\* is at least the balance read in the same iteration, no swap is submitted
\* for the asset and the run is over with this asset its last: a swap is
\* only ever submitted with a gas cost below the iteration's balance.
C22_GasHaltEndsRun ==
    /\ \A k \in Halts :
          /\ k = Len(outcomes)
          /\ pc = "idle" /\ idx = outcomes[k].asset
          /\ gasCost >= balance
          /\ \A j \in 1..Len(swaps) : swaps[j].asset < outcomes[k].asset
    /\ (pc = "swap" \/ Halts # {}) =>
          \E p \in EffectivePrices : gasCost = (gasEstimate * p * 120) \div 100
    /\ pc = "swap" => gasCost < balance
    /\ \A j \in 1..Len(swaps) : swaps[j].gasCost < swaps[j].balance

\* the second of three assets halts the run after the first was swapped
C22_Witness ==
    /\ pc = "idle"
    /\ Len(AvailableTokens) = 3
    /\ Len(outcomes) = 2
    /\ outcomes[1].result = "swapped"
    /\ outcomes[2].result = "halted"
    /\ nEstimates = 2

\* the outcome a step has just recorded for the asset in hand
Recorded(r) == outcomes' = Append(outcomes, Outcome(r))

\* C23: in every iteration the balance is the chain's at that time, the
\* preliminary amount is floor(balance * percentage / totalPercentage) and
\* the final amount floor((balance - gasCost) * percentage / totalPercentage)
\* with that balance; an amount of zero skips the asset, with no swap and no
\* failure recorded, and any other amount goes on to the next step.
C23_FreshBalanceAmounts ==
    /\ [][BalanceRead =>
            /\ balance' = chainBalance
            /\ LET preliminary == (chainBalance * CurrentPct) \div Divisor
               IN  IF preliminary = 0
                     THEN Recorded("skipped") /\ swaps' = swaps
                     ELSE amount' = preliminary /\ pc' = "estimateGas"]_vars
    /\ [][(FeeDataRead /\ gasCost' < balance) =>
            LET final == ((balance - gasCost') * CurrentPct) \div Divisor
            IN  IF final = 0
                  THEN Recorded("skipped") /\ swaps' = swaps
                  ELSE amount' = final /\ pc' = "swap"]_vars

-----------------------------------------------------------------------------
(* Claims about deployToPool *)

\* the loop is inside a tier
InTier == poolPc \in {"estimateGas", "getFeeData", "swap"}

\* the loop goes from one tier to the next
PoolAdvances == poolTier >= 1 /\ poolTier' = poolTier + 1

\* the swap in hand has just been logged as failed, the user not rejecting
SwapReverted ==
    /\ poolPc = "swap"
    /\ Len(poolSwaps') = Len(poolSwaps) + 1
    /\ poolSwaps'[Len(poolSwaps')].result = "reverted"

Confirmed == {k \in 1..Len(poolSwaps) : poolSwaps[k].result = "confirmed"}

\* the tiers are tried in the order 3000, 500, 10000, 100; nothing is
\* submitted after a confirmed swap, so that at most one swap succeeds; and
\* failure is reported only when no swap succeeded
TiersInOrder ==
    /\ \A k \in 1..Len(poolSwaps) :
          /\ poolSwaps[k].fee = <<3000, 500, 10000, 100>>[poolSwaps[k].tier]
          /\ k > 1 => poolSwaps[k - 1].tier < poolSwaps[k].tier
          /\ poolSwaps[k].tier <= poolTier
          /\ InTier => poolSwaps[k].tier < poolTier
    /\ \A k \in Confirmed : k = Len(poolSwaps) /\ poolPc = "idle" /\ poolToast = "deployed"
    /\ poolToast = "failed" => Confirmed = {}
    /\ poolToast = "deployed" => Confirmed # {}

Rejected == {k \in 1..Len(poolSwaps) : poolSwaps[k].result = "rejected"}

\* C25: a transaction the user rejected is the last thing the deployment
\* did: the loop stays at the tier of that swap, with no gas estimation and
\* no swap at a later tier, the failure toast is shown and deployingPoolId
\* is cleared.
C25_RejectionEndsDeployment ==
    \A k \in Rejected :
        /\ k = Len(poolSwaps)
        /\ poolTier = poolSwaps[k].tier
        /\ poolPc = "idle"
        /\ poolToast = "failed"
        /\ deployingPoolId = 0

\* the swap at 3000 failed, and the user rejected the one at 500
C25_Witness ==
    /\ Len(poolSwaps) = 2
    /\ poolSwaps[1].result = "reverted" /\ poolSwaps[1].fee = 3000
    /\ poolSwaps[2].result = "rejected" /\ poolSwaps[2].fee = 500
    /\ poolTier = 2 /\ deployingPoolId = 0

-----------------------------------------------------------------------------
(* The two normalization sites on lists of weights *)

\* the integers a weight is drawn from
Weights == {-1, 0, 1, 2, 3, 10, 20, 70}

WeightLists == UNION {[1..n -> Weights] : n \in 1..MaxNormLen}

SharesInit ==
    /\ normIn \in WeightLists
    /\ normSite = "none"
    /\ normOut = <<>>
    /\ WalletIdle /\ LookupIdle /\ ChatIdle /\ ClientIdle /\ DeployIdle /\ ExtIdle

SpecShares == SharesInit /\ [][NormNext]_vars

RECURSIVE SumList(_)
SumList(list) == IF list = <<>> THEN 0 ELSE Head(list) + SumList(Tail(list))

\* round(w_i / T * 100), for T above 0
RoundedShares(list) ==
    [i \in 1..Len(list) |-> (200 * list[i] + SumList(list)) \div (2 * SumList(list))]

\* the rounded shares with 100 - S added to the first
FirstCorrected(list) ==
    LET r == RoundedShares(list)
    IN  [i \in 1..Len(list) |-> IF i = 1 THEN r[1] + 100 - SumList(r) ELSE r[i]]

\* what a site returned, in whole points
OutPoints == IF normSite = "chat" THEN [i \in 1..Len(normOut) |-> normOut[i] \div 2]
                                  ELSE normOut

OutIsWhole == normSite = "chat" => \A i \in 1..Len(normOut) : IsWhole(normOut[i])

-----------------------------------------------------------------------------
(* Claims about the amounts of the whole-portfolio deployment *)

\* every percentage of the portfolio is a non-negative whole number
WholePercentages ==
    \A i \in 1..Len(deployItems) :
        IsWhole(deployItems[i].percentage) /\ deployItems[i].percentage >= 0

\* C28: in a run over a portfolio whose percentages are non-negative whole
\* numbers, every swap that was submitted has a positive amount, and the
\* amount plus the gas cost is at most the balance read in its iteration.
C28_SwapWithinBalance ==
    WholePercentages =>
        \A k \in 1..Len(swaps) :
            /\ swaps[k].amountIn > 0
            /\ swaps[k].amountIn + swaps[k].gasCost <= swaps[k].balance

\* C28 witness: two swaps were submitted, the later on a smaller balance than
\* the first, each with a gas cost above 0.
C28_Witness ==
    /\ WholePercentages
    /\ Len(swaps) >= 2
    /\ swaps[2].balance < swaps[1].balance
    /\ \A k \in 1..2 : swaps[k].gasCost > 0 /\ swaps[k].amountIn > 0

-----------------------------------------------------------------------------
(* Claims about the NFT contract's ledger *)

\* the minted tokens whose stored owner is a
OwnedBy(a) == {t \in Minted : owners[t] = a}

RECURSIVE SumBalances(_)
SumBalances(as) ==
    IF as = {} THEN 0
    ELSE LET a == CHOOSE x \in as : TRUE IN balances[a] + SumBalances(as \ {a})

\* C29: after any sequence of mint and transferFrom calls the stored balance
\* of every address is the number of minted tokens whose stored owner it is,
\* and the balances sum to the number of tokens minted.
C29_BalancesCountOwnedTokens ==
    /\ \A a \in Addresses : balances[a] = Cardinality(OwnedBy(a))
    /\ SumBalances(Addresses) = Len(returned)

\* C29 witness: both tokens minted, one of them to the zero address, and the
\* other just transferred from account 1 to account 2.
C29_Witness ==
    /\ Len(returned) = 2
    /\ nftCall.result = "ok" /\ nftCall.from = 1 /\ nftCall.to = 2
    /\ balances[0] = 1 /\ balances[1] = 0 /\ balances[2] = 1

\* a step in which a transferFrom call went through, or reverted
Transferred == nftCall'.result = "ok" /\ nftCall' # nftCall
TransferReverted == nftCall'.result \notin {"ok", "none"} /\ nftCall' # nftCall

\* a step that changes the owner of a token minted before it
OwnerChanges == \E t \in Minted : owners'[t] # owners[t]

contractVars == <<nextTokenId, owners, balances, tokenURIs, tokenApprovals,
                  operatorApprovals, returned>>

\* C30: the owner of a token changes only in a transferFrom whose caller is
\* the token's owner, its approved address or an operator of its owner, whose
\* from is the owner and whose to is not the zero address; a transfer that
\* goes through clears the token's approval; a call that fails a condition
\* leaves the contract's state as it was.
C30_TransferNeedsAuthority ==
    /\ [][OwnerChanges => nftCall'.result = "ok"]_vars
    /\ [][(nftCall'.result = "ok" /\ (OwnerChanges \/ nftCall' # nftCall)) =>
            LET c == nftCall'
                owner == owners[c.tokenId]
            IN  /\ \/ c.sender = owner
                   \/ c.sender = tokenApprovals[c.tokenId]
                   \/ <<owner, c.sender>> \in operatorApprovals
                /\ c.from = owner
                /\ c.to # 0
                /\ owners' = [owners EXCEPT ![c.tokenId] = c.to]
                /\ tokenApprovals' = [tokenApprovals EXCEPT ![c.tokenId] = 0]]_vars
    /\ [][TransferReverted => UNCHANGED contractVars]_vars

\* C30 witness: account 2, approved for token 0 by its owner, account 1, has
\* just moved the token to itself, and the approval is gone.
C30_Witness ==
    /\ nftCall = [sender |-> 2, from |-> 1, to |-> 2, tokenId |-> 0, result |-> "ok"]
    /\ owners[0] = 2
    /\ tokenApprovals[0] = 0
    /\ operatorApprovals = {}

====
